---- MODULE Spec2Model ----
(***************************************************************************)
(* GameLISP: lexer (src/js/lexer.js), single-pass compiler                 *)
(* (src/js/compiler.js, first definition of class Compiler), value model   *)
(* (src/js/value.js), environments (src/js/env.js), the stack VM           *)
(* (src/js/vm.js) and the editor and runner buttons of the main script     *)
(* (src/js/script.js), modelled as one state machine.                      *)
(*                                                                         *)
(* Conventions.                                                            *)
(*  - Source text is a sequence of one-character strings.  Source indices, *)
(*    code offsets and the program counter are 0-based as in the source;   *)
(*    a TLA+ sequence s is read at s[i + 1].                               *)
(*  - A JavaScript value (a Value object, or a raw host value that the VM  *)
(*    lets onto its stack) is a record [t, n, s, args, code]; t is the     *)
(*    tag, the other fields carry the payload and are 0 / "" / << >> when  *)
(*    the variant has none.                                                *)
(*    A String carries its characters in args (one-character strings),    *)
(*    a Function its reversed parameter names in args and its bytecode in  *)
(*    code.                                                                *)
(*  - Source positions (line, column) of tokens and the text of error      *)
(*    messages are not modelled.                                           *)
(*  - A number is an IEEE 754 double, and arithmetic rounds its results as *)
(*    JavaScript does (Numbers).                                           *)
(*  - A character is a string: its ASCII literal, or, for a code unit      *)
(*    that has none, a marker (CodeUnits).                                 *)
(***************************************************************************)
EXTENDS Integers, Sequences, FiniteSets, TLC

(***************************************************************************)
(* Values                                                                  *)
(***************************************************************************)

\* Value objects (src/js/value.js)
BoolValue(b) == [t |-> "Bool", n |-> IF b THEN 1 ELSE 0, s |-> "", args |-> << >>, code |-> << >>]
NumberValue(k) == [t |-> "Number", n |-> k, s |-> "", args |-> << >>, code |-> << >>]
StringValue(chars) == [t |-> "String", n |-> 0, s |-> "", args |-> chars, code |-> << >>]
FunctionValue(name, params, body) == [t |-> "Function", n |-> 0, s |-> name, args |-> params, code |-> body]
NativeFunctionValue(name, arity) == [t |-> "NativeFunction", n |-> arity, s |-> name, args |-> << >>, code |-> << >>]
TypeValue(name) == [t |-> "Type", n |-> 0, s |-> name, args |-> << >>, code |-> << >>]
ErrorValue(msg) == [t |-> "Error", n |-> 0, s |-> msg, args |-> << >>, code |-> << >>]

\* Raw host values that are not Value objects
RawInt(k) == [t |-> "RawInt", n |-> k, s |-> "", args |-> << >>, code |-> << >>]
RawStr(str) == [t |-> "RawStr", n |-> 0, s |-> str, args |-> << >>, code |-> << >>]
JSUndefined == [t |-> "JSUndefined", n |-> 0, s |-> "", args |-> << >>, code |-> << >>]
JSNaN == [t |-> "JSNaN", n |-> 0, s |-> "", args |-> << >>, code |-> << >>]

Abs(k) == IF k < 0 THEN -k ELSE k

ValueTags == {"Bool", "Number", "String", "Function", "NativeFunction", "Type", "Error"}
IsValue(v) == v.t \in ValueTags

(***************************************************************************)
(* Lexer                                                                   *)
(***************************************************************************)

UpperChars == {"A", "B", "C", "D", "E", "F", "G", "H", "I", "J", "K", "L", "M",
               "N", "O", "P", "Q", "R", "S", "T", "U", "V", "W", "X", "Y", "Z"}
LowerChars == {"a", "b", "c", "d", "e", "f", "g", "h", "i", "j", "k", "l", "m",
               "n", "o", "p", "q", "r", "s", "t", "u", "v", "w", "x", "y", "z"}
DigitChars == {"0", "1", "2", "3", "4", "5", "6", "7", "8", "9"}

isAlpha(ch) == ch \in UpperChars \cup LowerChars
isDigit(ch) == ch \in DigitChars
isHex(ch) == isDigit(ch) \/ ch \in {"A", "B", "C", "D", "E", "F", "a", "b", "c", "d", "e", "f"}
isOctal(ch) == ch \in {"0", "1", "2", "3", "4", "5", "6", "7"}
isBinary(ch) == ch \in {"0", "1"}
isIdentifier(ch) == ch = "_" \/ isAlpha(ch) \/ isDigit(ch)

\* source[idx]; "" stands for the undefined read past the end of the source
CharAt(src, idx) == IF idx >= 0 /\ idx < Len(src) THEN src[idx + 1] ELSE ""
reachedEndOfSource(src, idx) == idx >= Len(src)

\* a token: its type, and its lexeme (s for text, n for the number of a
\* NUMBER token, chars for the decoded characters of a string)
Token(type, str, num) == [type |-> type, s |-> str, n |-> NumberValue(num), chars |-> << >>]
StringToken(chars) == [type |-> "STRING", s |-> "", n |-> NumberValue(0), chars |-> chars]
NumberToken(value) == [type |-> "NUMBER", s |-> "", n |-> value, chars |-> << >>]

\* index of the first character at or after idx that does not satisfy the
\* scanning predicate (the scanning loops of #readIdentifier and the
\* #read...Number methods)
RECURSIVE ScanWhile(_, _, _)
ScanWhile(src, idx, kind) ==
    LET ch == CharAt(src, idx)
        ok == CASE kind = "identifier" -> isIdentifier(ch)
                [] kind = "digit" -> isDigit(ch)
                [] kind = "hex" -> isHex(ch)
                [] kind = "octal" -> isOctal(ch)
                [] kind = "binary" -> isBinary(ch)
                [] OTHER -> FALSE
    IN IF ~reachedEndOfSource(src, idx) /\ ok THEN ScanWhile(src, idx + 1, kind) ELSE idx

\* source.substring(from, to) as one string
RECURSIVE Substring(_, _, _)
Substring(src, from, to) ==
    IF from >= to \/ from >= Len(src) THEN "" ELSE src[from + 1] \o Substring(src, from + 1, to)

DigitValue(ch) ==
    CASE ch = "0" -> 0 [] ch = "1" -> 1 [] ch = "2" -> 2 [] ch = "3" -> 3 [] ch = "4" -> 4
      [] ch = "5" -> 5 [] ch = "6" -> 6 [] ch = "7" -> 7 [] ch = "8" -> 8 [] ch = "9" -> 9
      [] ch \in {"a", "A"} -> 10 [] ch \in {"b", "B"} -> 11 [] ch \in {"c", "C"} -> 12
      [] ch \in {"d", "D"} -> 13 [] ch \in {"e", "E"} -> 14 [] ch \in {"f", "F"} -> 15
      [] OTHER -> 0

\* parseInt(source.substring(from, to), radix) for a run of valid digits
RECURSIVE ParseInt(_, _, _, _)
ParseInt(src, from, to, radix) ==
    IF from >= to THEN 0
    ELSE ParseInt(src, from, to - 1, radix) * radix + DigitValue(CharAt(src, to - 1))

\* the characters by code unit, CodeUnits[c + 1] for the code c below 256.  A
\* code unit that has no ASCII literal here is written as a marker: \0, \v
\* and \f for NUL, vertical tab and form feed, \uXXXX (lower-case hex
\* digits) for the others and for every code from 128 on
CodeUnits ==
    << "\\0", "\\u0001", "\\u0002", "\\u0003", "\\u0004", "\\u0005", "\\u0006", "\\u0007",
       "\\u0008", "\t", "\n", "\\v", "\\f", "\r", "\\u000e", "\\u000f",
       "\\u0010", "\\u0011", "\\u0012", "\\u0013", "\\u0014", "\\u0015", "\\u0016", "\\u0017",
       "\\u0018", "\\u0019", "\\u001a", "\\u001b", "\\u001c", "\\u001d", "\\u001e", "\\u001f",
       " ", "!", "\"", "#", "$", "%", "&", "'",
       "(", ")", "*", "+", ",", "-", ".", "/",
       "0", "1", "2", "3", "4", "5", "6", "7",
       "8", "9", ":", ";", "<", "=", ">", "?",
       "@", "A", "B", "C", "D", "E", "F", "G",
       "H", "I", "J", "K", "L", "M", "N", "O",
       "P", "Q", "R", "S", "T", "U", "V", "W",
       "X", "Y", "Z", "[", "\\", "]", "^", "_",
       "\\u0060", "a", "b", "c", "d", "e", "f", "g",
       "h", "i", "j", "k", "l", "m", "n", "o",
       "p", "q", "r", "s", "t", "u", "v", "w",
       "x", "y", "z", "{", "|", "}", "~", "\\u007f",
       "\\u0080", "\\u0081", "\\u0082", "\\u0083", "\\u0084", "\\u0085", "\\u0086", "\\u0087",
       "\\u0088", "\\u0089", "\\u008a", "\\u008b", "\\u008c", "\\u008d", "\\u008e", "\\u008f",
       "\\u0090", "\\u0091", "\\u0092", "\\u0093", "\\u0094", "\\u0095", "\\u0096", "\\u0097",
       "\\u0098", "\\u0099", "\\u009a", "\\u009b", "\\u009c", "\\u009d", "\\u009e", "\\u009f",
       "\\u00a0", "\\u00a1", "\\u00a2", "\\u00a3", "\\u00a4", "\\u00a5", "\\u00a6", "\\u00a7",
       "\\u00a8", "\\u00a9", "\\u00aa", "\\u00ab", "\\u00ac", "\\u00ad", "\\u00ae", "\\u00af",
       "\\u00b0", "\\u00b1", "\\u00b2", "\\u00b3", "\\u00b4", "\\u00b5", "\\u00b6", "\\u00b7",
       "\\u00b8", "\\u00b9", "\\u00ba", "\\u00bb", "\\u00bc", "\\u00bd", "\\u00be", "\\u00bf",
       "\\u00c0", "\\u00c1", "\\u00c2", "\\u00c3", "\\u00c4", "\\u00c5", "\\u00c6", "\\u00c7",
       "\\u00c8", "\\u00c9", "\\u00ca", "\\u00cb", "\\u00cc", "\\u00cd", "\\u00ce", "\\u00cf",
       "\\u00d0", "\\u00d1", "\\u00d2", "\\u00d3", "\\u00d4", "\\u00d5", "\\u00d6", "\\u00d7",
       "\\u00d8", "\\u00d9", "\\u00da", "\\u00db", "\\u00dc", "\\u00dd", "\\u00de", "\\u00df",
       "\\u00e0", "\\u00e1", "\\u00e2", "\\u00e3", "\\u00e4", "\\u00e5", "\\u00e6", "\\u00e7",
       "\\u00e8", "\\u00e9", "\\u00ea", "\\u00eb", "\\u00ec", "\\u00ed", "\\u00ee", "\\u00ef",
       "\\u00f0", "\\u00f1", "\\u00f2", "\\u00f3", "\\u00f4", "\\u00f5", "\\u00f6", "\\u00f7",
       "\\u00f8", "\\u00f9", "\\u00fa", "\\u00fb", "\\u00fc", "\\u00fd", "\\u00fe", "\\u00ff" >>
HexDigits == << "0", "1", "2", "3", "4", "5", "6", "7", "8", "9", "a", "b", "c", "d", "e", "f" >>
UnicodeMarker(code) ==
    "\\u" \o HexDigits[((code \div 4096) % 16) + 1] \o HexDigits[((code \div 256) % 16) + 1]
           \o HexDigits[((code \div 16) % 16) + 1] \o HexDigits[(code % 16) + 1]
\* String.fromCharCode(code)
CharFromCode(code) == IF code < 256 THEN CodeUnits[code + 1] ELSE UnicodeMarker(code)
\* the code of each unit of the table
CodeOfUnit ==
    [ch \in {CodeUnits[c + 1] : c \in 0..255} |-> CHOOSE c \in 0..255 : CodeUnits[c + 1] = ch]
\* ch.charCodeAt(0); a character that is not written as above has no code
\* here and is placed after all of them
CharCode(ch) ==
    IF ch \in DOMAIN CodeOfUnit THEN CodeOfUnit[ch]
    ELSE IF \E c \in 256..65535 : UnicodeMarker(c) = ch
    THEN CHOOSE c \in 256..65535 : UnicodeMarker(c) = ch
    ELSE 65536

\* Number.prototype.toString of an integer: its decimal digits
DecimalDigits == << "0", "1", "2", "3", "4", "5", "6", "7", "8", "9" >>
RECURSIVE NatToChars(_)
NatToChars(k) ==
    IF k < 10 THEN << DecimalDigits[k + 1] >>
    ELSE Append(NatToChars(k \div 10), DecimalDigits[(k % 10) + 1])
IntToChars(k) == IF k < 0 THEN << "-" >> \o NatToChars(-k) ELSE NatToChars(k)

RECURSIVE Power(_, _)
Power(b, e) == IF e = 0 THEN 1 ELSE b * Power(b, e - 1)

(***************************************************************************)
(* Numbers                                                                 *)
(*                                                                         *)
(* A JavaScript number is an IEEE 754 double.  A finite double is          *)
(* sign * m * 2^e for a natural number m below 2^53; the result of an      *)
(* arithmetic operator is the exact result rounded to the nearest double,  *)
(* ties to the even mantissa, and an infinity from 2^1024 on.  The          *)
(* mantissas do not fit the integers of the checker, so a natural number   *)
(* is kept as the sequence of its limbs in base 32768, the least           *)
(* significant first and the most significant not 0 (<< >> is 0).  -0 is   *)
(* kept as 0, which no operation of value.js tells apart.                  *)
(***************************************************************************)

\* TwoTo[j + 1] = 2^j, up to the base of the limbs
TwoTo == << 1, 2, 4, 8, 16, 32, 64, 128, 256, 512, 1024, 2048, 4096, 8192, 16384, 32768 >>
Max(a, b) == IF a >= b THEN a ELSE b
Min(a, b) == IF a <= b THEN a ELSE b

\* the limbs of an integer k >= 0, and the integer of at most 31 bits
NatOf(k) ==
    IF k = 0 THEN << >>
    ELSE IF k < 32768 THEN << k >>
    ELSE IF k < 1073741824 THEN << k % 32768, k \div 32768 >>
    ELSE << k % 32768, (k \div 32768) % 32768, k \div 1073741824 >>
NatToInt(x) ==
    (IF Len(x) > 0 THEN x[1] ELSE 0) + (IF Len(x) > 1 THEN x[2] * 32768 ELSE 0)
        + (IF Len(x) > 2 THEN x[3] * 1073741824 ELSE 0)

\* the sequence of the values of a function on 1..n
Limbs(f) == SubSeq(f, 1, Len(f))

\* x without the limbs 0 at its top
NatStrip(x) ==
    SubSeq(x, 1, CHOOSE i \in 0..Len(x) : (i = 0 \/ x[i] # 0) /\ \A j \in (i + 1)..Len(x) : x[j] = 0)

\* -1, 0 or 1 as x is below, equal to or above y
NatCompare(x, y) ==
    LET At(i) == IF i = 0 THEN 0 ELSE IF x[i] < y[i] THEN -1 ELSE 1
    IN IF Len(x) # Len(y) THEN (IF Len(x) < Len(y) THEN -1 ELSE 1)
       ELSE At(CHOOSE i \in 0..Len(x) : (i = 0 \/ x[i] # y[i]) /\ \A j \in (i + 1)..Len(x) : x[j] = y[j])

\* the limbs of the sum of s[i] * 32768^(i-1), each s[i] in 0..65534: limb i
\* takes a carry when the nearest limb below it that is not 32767 is above
NatCarried(s) ==
    LET Carry(i) == \E j \in 1..(i - 1) : s[j] > 32767 /\ \A k \in (j + 1)..(i - 1) : s[k] = 32767
    IN NatStrip(Limbs([i \in 1..(Len(s) + 1) |->
                         ((IF i <= Len(s) THEN s[i] ELSE 0) + (IF Carry(i) THEN 1 ELSE 0)) % 32768]))

\* x + y
NatSum(x, y) ==
    IF y = << >> THEN x
    ELSE IF x = << >> THEN y
    ELSE NatCarried(Limbs([i \in 1..Max(Len(x), Len(y)) |->
                             (IF i <= Len(x) THEN x[i] ELSE 0) + (IF i <= Len(y) THEN y[i] ELSE 0)]))

\* x - y for x >= y: limb i lends when the nearest limb below it where x and
\* y differ has the smaller limb in x
NatSub(x, y) ==
    LET At(v, i) == IF i <= Len(v) THEN v[i] ELSE 0
        Borrow(i) == \E j \in 1..(i - 1) : At(x, j) < At(y, j) /\ \A k \in (j + 1)..(i - 1) : At(x, k) = At(y, k)
    IN IF y = << >> THEN x
       ELSE NatStrip(Limbs([i \in 1..Len(x) |-> (x[i] - At(y, i) - (IF Borrow(i) THEN 1 ELSE 0)) % 32768]))

\* x * m + carry for a limb m and a carry below the base
NatScaled(x, m, carry) ==
    IF x = << >> \/ m = 0 THEN NatOf(carry)
    ELSE NatCarried(Limbs([i \in 1..(Len(x) + 1) |->
                             (IF i <= Len(x) THEN (x[i] * m) % 32768 ELSE 0)
                                 + (IF i = 1 THEN carry ELSE (x[i - 1] * m) \div 32768)]))

\* x * 32768^k
NatLimbsUp(x, k) == IF x = << >> THEN x ELSE [i \in 1..k |-> 0] \o x

RECURSIVE NatProduct(_, _)
NatProduct(x, y) ==
    LET Halves(h) ==
            NatSum(NatProduct(x, SubSeq(y, 1, h)), NatLimbsUp(NatProduct(x, SubSeq(y, h + 1, Len(y))), h))
    IN IF x = << >> \/ y = << >> THEN << >>
       ELSE IF Len(y) = 1 THEN NatScaled(x, y[1], 0)
       ELSE Halves(Len(y) \div 2)

RECURSIVE NatPower(_, _)
NatPower(b, n) ==
    LET Squared(h) == IF n % 2 = 0 THEN NatProduct(h, h) ELSE NatProduct(NatProduct(h, h), b)
    IN IF n = 0 THEN << 1 >> ELSE Squared(NatPower(b, n \div 2))

\* x * 2^k and the integer part of x / 2^k
NatShiftLeft(x, k) == NatLimbsUp(NatScaled(x, TwoTo[(k % 15) + 1], 0), k \div 15)
NatShiftRight(x, k) ==
    LET Bits(y, low) ==
            NatStrip(Limbs([i \in 1..Len(y) |->
                              (y[i] \div low) + (IF i < Len(y) THEN (y[i + 1] % low) * (32768 \div low) ELSE 0)]))
    IN IF k \div 15 >= Len(x) THEN << >>
       ELSE Bits(SubSeq(x, (k \div 15) + 1, Len(x)), TwoTo[(k % 15) + 1])
\* x modulo 2^k
NatLow(x, k) ==
    IF k \div 15 >= Len(x) THEN x
    ELSE NatStrip(SubSeq(x, 1, k \div 15) \o << x[(k \div 15) + 1] % TwoTo[(k % 15) + 1] >>)

\* the number of bits of x, bit i of x, and the number of zero bits x ends in
NatBits(x) ==
    IF x = << >> THEN 0
    ELSE 15 * (Len(x) - 1) + (CHOOSE j \in 1..15 : TwoTo[j] <= x[Len(x)] /\ x[Len(x)] < TwoTo[j + 1])
NatBit(x, i) ==
    IF i < 0 \/ i \div 15 >= Len(x) THEN 0 ELSE (x[(i \div 15) + 1] \div TwoTo[(i % 15) + 1]) % 2
NatTrailingZeros(x) ==
    LET Lowest(i) == 15 * (i - 1) + (CHOOSE j \in 0..14 : x[i] % TwoTo[j + 2] = TwoTo[j + 1])
    IN Lowest(CHOOSE i \in 1..Len(x) : x[i] # 0 /\ \A j \in 1..(i - 1) : x[j] = 0)

\* long division, limb by limb, by a divisor b whose top limb is 16384 at
\* least: st.r is the remainder of the limbs of a above limb st.i, st.q the
\* quotient so far.  The limb of the quotient is guessed from the two top
\* limbs of the remainder and the top limb of b, which is at most 2 too much.
LimbFits(b, u, q) == q <= 0 \/ NatCompare(NatScaled(b, q, 0), u) <= 0
LimbTaken(b, st, u, q) ==
    [q |-> IF st.q = << >> /\ q = 0 THEN << >> ELSE << q >> \o st.q,
     r |-> NatSub(u, NatScaled(b, q, 0)), i |-> st.i - 1]
LimbGuessed(b, st, u, q) ==
    LimbTaken(b, st, u, q - Cardinality({k \in {q - 1, q} : ~LimbFits(b, u, k)}))
LimbOf(b, st, u) ==
    LET At(i) == IF i <= Len(u) THEN u[i] ELSE 0
    IN LimbGuessed(b, st, u, Min(32767, (At(Len(b) + 1) * 32768 + At(Len(b))) \div b[Len(b)]))
DivisionStep(a, b, st) == LimbOf(b, st, NatStrip(<< a[st.i] >> \o st.r))
RECURSIVE DivisionSteps(_, _, _, _)
DivisionSteps(a, b, st, n) ==
    IF st.i < 1 \/ n <= 0 THEN st
    ELSE IF n = 1 THEN DivisionStep(a, b, st)
    ELSE DivisionSteps(a, b, DivisionSteps(a, b, st, n \div 2), n - (n \div 2))
\* the n steps that divide x by y, whose top limb is 16384 at least
LongDivision(x, y, n) ==
    DivisionSteps(x, y, [q |-> << >>, r |-> SubSeq(x, n + 1, Len(x)), i |-> n], n)
\* quotient and remainder of a by b, both shifted left to make the top limb of
\* b 16384 at least: the shift leaves the quotient and scales the remainder
ShiftedDivision(a, b, shift) ==
    LET Result(st) == [q |-> st.q, r |-> NatShiftRight(st.r, shift)]
        Normal(x, y) == LongDivision(x, y, Len(x) - Len(y) + 1)
    IN Result(Normal(NatShiftLeft(a, shift), NatShiftLeft(b, shift)))
\* quotient q and remainder r of a by b, b # 0
NatDivMod(a, b) ==
    IF b = << 1 >> THEN [q |-> a, r |-> << >>]
    ELSE IF NatCompare(a, b) < 0 THEN [q |-> << >>, r |-> a]
    ELSE ShiftedDivision(a, b, 15 - (NatBits(b) - 15 * (Len(b) - 1)))

\* the natural number the digits of src from position from up to, not
\* including, position to spell in a radix
RECURSIVE NatFromDigits(_, _, _, _)
NatFromDigits(src, from, to, radix) ==
    LET Halves(mid) ==
            NatSum(NatProduct(NatFromDigits(src, from, mid, radix), NatPower(<< radix >>, to - mid)),
                   NatFromDigits(src, mid, to, radix))
    IN IF from >= to THEN << >>
       ELSE IF to = from + 1 THEN NatOf(DigitValue(CharAt(src, from)))
       ELSE Halves((from + to) \div 2)

\* Number values that are no integers below 2^31: the finite double
\* sign * m * 2^e with m odd (n is the sign, 1 or -1, args the exponent e
\* followed by the limbs of m), the two infinities, and NaN
NumberDouble(sign, m, e) == [t |-> "Number", n |-> sign, s |-> "Double", args |-> << e >> \o m, code |-> << >>]
NumberInfinity(sign) == [t |-> "Number", n |-> sign, s |-> "Infinity", args |-> << >>, code |-> << >>]
NumberNaN == [t |-> "Number", n |-> 0, s |-> "NaN", args |-> << >>, code |-> << >>]
isNaN(v) == v.s = "NaN"

\* sign, mantissa and exponent of a finite Number, and its sign as -1, 0 or 1
Parts(v) ==
    IF v.s = "" THEN [sign |-> IF v.n < 0 THEN -1 ELSE 1, m |-> NatOf(Abs(v.n)), e |-> 0]
    ELSE [sign |-> v.n, m |-> Tail(v.args), e |-> v.args[1]]
Sign(v) == IF v.n > 0 THEN 1 ELSE IF v.n < 0 THEN -1 ELSE 0

\* the Number sign * m * 2^e, which is a double
NumberFrom(sign, m, e) ==
    LET Odd(mantissa, exponent) ==
            IF exponent >= 0 /\ NatBits(mantissa) + exponent <= 31
            THEN NumberValue(sign * NatToInt(NatShiftLeft(mantissa, exponent)))
            ELSE NumberDouble(sign, mantissa, exponent)
        Even(zeros) == Odd(NatShiftRight(m, zeros), e + zeros)
    IN IF m = << >> THEN NumberValue(0) ELSE Even(NatTrailingZeros(m))

\* the double nearest to sign * (m + f) * 2^e, where 0 <= f < 1 and f # 0
\* exactly if sticky; with sticky, m has 55 bits at least.  The unit of the
\* last place is 2^unit, which keeps 53 bits but is not below 2^-1074; a
\* half of it that is dropped goes to the even mantissa.
Overflowing(sign, mantissa, unit) ==
    IF NatBits(mantissa) + unit > 1024 THEN NumberInfinity(sign)
    ELSE NumberFrom(sign, mantissa, unit)
RoundAt(sign, m, e, sticky, unit) ==
    LET Dropped(bits, high) ==
            IF /\ NatBit(m, bits - 1) = 1
               /\ (sticky \/ NatLow(m, bits - 1) # << >> \/ NatBit(high, 0) = 1)
            THEN NatSum(high, << 1 >>) ELSE high
    IN Overflowing(sign, IF unit <= e THEN m ELSE Dropped(unit - e, NatShiftRight(m, unit - e)),
                   Max(e, unit))
RoundNearest(sign, m, e, sticky) == RoundAt(sign, m, e, sticky, Max(e + NatBits(m) - 53, -1074))

\* the double nearest to sign * (n / d) * 2^e, d # 0: the quotient is taken
\* to 55 bits at least
RoundDivided(sign, r, e) == RoundNearest(sign, r.q, e, r.r # << >>)
RoundShifted(sign, n, d, e, shift) == RoundDivided(sign, NatDivMod(NatShiftLeft(n, shift), d), e - shift)
RoundQuotient(sign, n, d, e) == RoundShifted(sign, n, d, e, Max(0, 55 + NatBits(d) - NatBits(n)))

\* -1, 0 or 1 as the magnitude of a is below, equal to or above that of b,
\* for the parts of finite Numbers that are not 0
MagnitudeCompare(a, b) ==
    LET Aligned(high, low, way) == way * NatCompare(NatShiftLeft(high.m, high.e - low.e), low.m)
        Top(x) == NatBits(x.m) + x.e
    IN IF Top(a) # Top(b) THEN (IF Top(a) < Top(b) THEN -1 ELSE 1)
       ELSE Aligned(IF a.e >= b.e THEN a ELSE b, IF a.e >= b.e THEN b ELSE a,
                    IF a.e >= b.e THEN 1 ELSE -1)

\* a < b for Numbers
NumberLess(a, b) ==
    IF isNaN(a) \/ isNaN(b) THEN FALSE
    ELSE IF a.s = "" /\ b.s = "" THEN a.n < b.n
    ELSE IF Sign(a) # Sign(b) THEN Sign(a) < Sign(b)
    ELSE IF a.s = "Infinity" \/ b.s = "Infinity"
         THEN a.s # b.s /\ (IF Sign(a) > 0 THEN b.s = "Infinity" ELSE a.s = "Infinity")
    ELSE Sign(a) * MagnitudeCompare(Parts(a), Parts(b)) < 0

\* -a
NumberNegated(a) == [a EXCEPT !.n = -a.n]

\* a + b for finite Numbers: the exact sum, rounded.  An operand more than
\* 60 binary places below the other does not change it.
\* the sum of sign sa * x * 2^e and sign sb * y * 2^e, where order compares
\* x with y
OrderedSum(sa, sb, x, y, e, order) ==
    RoundNearest(IF order >= 0 THEN sa ELSE sb,
                 IF sa = sb THEN NatSum(x, y)
                 ELSE NatSub(IF order >= 0 THEN x ELSE y, IF order >= 0 THEN y ELSE x),
                 e, FALSE)
AlignedSum(sa, sb, x, y, e) == OrderedSum(sa, sb, x, y, e, NatCompare(x, y))
NearSum(pa, pb, e) ==
    AlignedSum(pa.sign, pb.sign, NatShiftLeft(pa.m, pa.e - e), NatShiftLeft(pb.m, pb.e - e), e)
PartsSum(a, b, pa, pb) ==
    IF NatBits(pa.m) + pa.e > NatBits(pb.m) + pb.e + 60 THEN a
    ELSE IF NatBits(pb.m) + pb.e > NatBits(pa.m) + pa.e + 60 THEN b
    ELSE NearSum(pa, pb, Min(pa.e, pb.e))
FiniteSum(a, b) ==
    IF a.n = 0 THEN b
    ELSE IF b.n = 0 THEN a
    ELSE PartsSum(a, b, Parts(a), Parts(b))

\* a + b
NumberSum(a, b) ==
    IF isNaN(a) \/ isNaN(b) THEN NumberNaN
    ELSE IF a.s = "" /\ b.s = "" /\ Abs(a.n) < 1073741824 /\ Abs(b.n) < 1073741824
    THEN NumberValue(a.n + b.n)
    ELSE IF a.s = "Infinity" THEN (IF b.s = "Infinity" /\ a.n # b.n THEN NumberNaN ELSE a)
    ELSE IF b.s = "Infinity" THEN b
    ELSE FiniteSum(a, b)

\* a * b
NumberProduct(a, b) ==
    LET Finite(pa, pb) == RoundNearest(pa.sign * pb.sign, NatProduct(pa.m, pb.m), pa.e + pb.e, FALSE)
    IN IF isNaN(a) \/ isNaN(b) THEN NumberNaN
       ELSE IF a.s = "" /\ b.s = "" /\ Abs(a.n) < 32768 /\ Abs(b.n) < 32768
       THEN NumberValue(a.n * b.n)
       ELSE IF a.s = "Infinity" \/ b.s = "Infinity"
       THEN (IF a.n = 0 \/ b.n = 0 THEN NumberNaN ELSE NumberInfinity(Sign(a) * Sign(b)))
       ELSE IF a.n = 0 \/ b.n = 0 THEN NumberValue(0)
       ELSE Finite(Parts(a), Parts(b))

\* a / b
NumberQuotient(a, b) ==
    LET Finite(pa, pb) == RoundQuotient(pa.sign * pb.sign, pa.m, pb.m, pa.e - pb.e)
    IN IF isNaN(a) \/ isNaN(b) THEN NumberNaN
       ELSE IF b.n = 0
       THEN (IF a.n = 0 THEN NumberNaN ELSE NumberInfinity(Sign(a)))
       ELSE IF a.s = "" /\ b.s = "" /\ a.n % Abs(b.n) = 0
       THEN NumberValue(Sign(b) * (a.n \div Abs(b.n)))
       ELSE IF a.s = "Infinity"
       THEN (IF b.s = "Infinity" THEN NumberNaN ELSE NumberInfinity(Sign(a) * Sign(b)))
       ELSE IF b.s = "Infinity" \/ a.n = 0 THEN NumberValue(0)
       ELSE Finite(Parts(a), Parts(b))

\* 2^k modulo b
RECURSIVE PowerOfTwoMod(_, _)
PowerOfTwoMod(k, b) ==
    LET Squared(h) ==
            IF h = << >> THEN h
            ELSE NatDivMod(NatScaled(NatProduct(h, h), IF k % 2 = 0 THEN 1 ELSE 2, 0), b).r
    IN IF k = 0 THEN NatDivMod(<< 1 >>, b).r ELSE Squared(PowerOfTwoMod(k \div 2, b))

\* a % b, the remainder of the division that truncates, which has the sign of
\* a and is exact
NumberRemainder(a, b) ==
    LET \* pa.m * factor modulo divisor, in units of 2^e
        Reduced(pa, factor, divisor, e) ==
            NumberFrom(pa.sign, NatDivMod(NatProduct(pa.m, factor), divisor).r, e)
        Finite(pa, pb) ==
            IF MagnitudeCompare(pa, pb) < 0 THEN a
            ELSE Reduced(pa,
                         IF pa.e >= pb.e THEN PowerOfTwoMod(pa.e - pb.e, pb.m) ELSE << 1 >>,
                         IF pa.e >= pb.e THEN pb.m ELSE NatShiftLeft(pb.m, pb.e - pa.e),
                         Min(pa.e, pb.e))
    IN IF isNaN(a) \/ isNaN(b) \/ a.s = "Infinity" \/ b.n = 0 THEN NumberNaN
       ELSE IF a.s = "" /\ b.s = ""
       THEN NumberValue(IF a.n >= 0 THEN a.n % Abs(b.n) ELSE -((-a.n) % Abs(b.n)))
       ELSE IF b.s = "Infinity" \/ a.n = 0 THEN a
       ELSE Finite(Parts(a), Parts(b))

\* Math.floor(a) and the truncation of a toward zero
NumberFloor(a) ==
    LET Below(whole) == NumberFrom(a.n, IF a.n > 0 THEN whole ELSE NatSum(whole, << 1 >>), 0)
    IN IF a.s # "Double" \/ a.args[1] >= 0 THEN a
       ELSE Below(NatShiftRight(Tail(a.args), -a.args[1]))
NumberTruncated(a) ==
    IF a.s # "Double" \/ a.args[1] >= 0 THEN a
    ELSE NumberFrom(a.n, NatShiftRight(Tail(a.args), -a.args[1]), 0)

\* the double nearest to sign * digits * 10^exponent.  Above 10^330 it is an
\* infinity, below 10^-330 it is 0.
DecimalToNumber(sign, digits, exponent) ==
    LET Scaled(power) ==
            RoundQuotient(sign, IF exponent > 0 THEN NatProduct(digits, power) ELSE digits,
                          IF exponent < 0 THEN power ELSE << 1 >>, exponent)
    IN IF digits = << >> THEN NumberValue(0)
       ELSE IF exponent > 330 THEN NumberInfinity(sign)
       ELSE IF (NatBits(digits) * 30103) \div 100000 + 2 + exponent < -330 THEN NumberValue(0)
       ELSE Scaled(NatPower(<< 5 >>, Abs(exponent)))

\* the decimal digits of a natural number below 10^18, as integers, and the
\* natural number that at most 18 decimal digits spell
NatDigits(x) ==
    LET Digits(k, count) == Limbs([i \in 1..count |-> (k \div Power(10, count - i)) % 10])
        Count(k) == CHOOSE c \in 1..9 : k < Power(10, c) /\ (c = 1 \/ k >= Power(10, c - 1))
        Halves(high, low) ==
            IF high = 0 THEN Digits(low, Count(low)) ELSE Digits(high, Count(high)) \o Digits(low, 9)
        Split(d) == Halves(NatToInt(d.q), NatToInt(d.r))
    IN Split(NatDivMod(x, NatOf(1000000000)))
NatOfDigits(ds) ==
    LET Digit(from, to, i) == IF from + i - 1 <= to /\ i >= 1 THEN ds[from + i - 1] ELSE 0
        \* the integer of the digits from from to to, nine at most
        Nine(from, to) ==
            Digit(from, to, to - from + 1) + 10 * Digit(from, to, to - from)
          + 100 * Digit(from, to, to - from - 1) + 1000 * Digit(from, to, to - from - 2)
          + 10000 * Digit(from, to, to - from - 3) + 100000 * Digit(from, to, to - from - 4)
          + 1000000 * Digit(from, to, to - from - 5) + 10000000 * Digit(from, to, to - from - 6)
          + 100000000 * Digit(from, to, to - from - 7)
    IN IF Len(ds) <= 9 THEN NatOf(Nine(1, Len(ds)))
       ELSE NatSum(NatProduct(NatOf(Nine(1, Len(ds) - 9)), NatOf(1000000000)),
                   NatOf(Nine(Len(ds) - 8, Len(ds))))
\* the digits of the next natural number; a run of nines becomes 1 and zeros
NextDigits(ds) ==
    LET From(j) ==
            IF j = 0 THEN << 1 >> \o [i \in 1..Len(ds) |-> 0]
            ELSE Limbs([i \in 1..Len(ds) |-> IF i < j THEN ds[i] ELSE IF i = j THEN ds[i] + 1 ELSE 0])
    IN From(CHOOSE j \in 0..Len(ds) : (j = 0 \/ ds[j] # 9) /\ \A i \in (j + 1)..Len(ds) : ds[i] = 9)

\* v * 10^(17 - n) for the parts p of v, as the quotient and remainder r of
\* a division by d, with n such that the quotient has 17 decimal digits (it
\* is 10^16 at least and below 10^17); n is 1 too large or too small at
\* first, at most
RECURSIVE SeventeenDigits(_, _)
SeventeenDigits(p, n) ==
    LET Sized(r, d) ==
            IF NatCompare(r.q, << 0, 15124, 5601, 2842 >>) >= 0 THEN SeventeenDigits(p, n + 1)
            ELSE IF NatCompare(r.q, << 0, 24450, 7113, 284 >>) < 0 THEN SeventeenDigits(p, n - 1)
            ELSE [r |-> r, d |-> d, n |-> n]
        Divided(num, den) == Sized(NatDivMod(num, den), den)
        Scaled(power, up, down) ==
            Divided(NatShiftLeft(IF up > 0 THEN NatProduct(p.m, power) ELSE p.m, Max(down, 0)),
                    NatShiftLeft(IF up < 0 THEN power ELSE << 1 >>, Max(-down, 0)))
    IN Scaled(NatPower(<< 5 >>, Abs(17 - n)), 17 - n, p.e + 17 - n)

\* Number::toString of a finite v > 0 that is no integer below 2^31.  The
\* result is [digits, n]: the k digits of s and the exponent n with
\* 10^(k-1) <= s < 10^k for which s * 10^(n-k) is read back as v, k as small
\* as can be and s as near to v as can be (the even s when two are as near).
ShortestDigits(v) ==
    LET Candidate(ds, n) == [digits |-> ds, n |-> n]
        Reads(c) == DecimalToNumber(1, NatOfDigits(c.digits), c.n - Len(c.digits)) = v
        \* -1, 0 or 1 as what follows the first k digits is below, equal to
        \* or above 1/2, and -2 when nothing follows the 17 digits
        Rest(all, half, k) ==
            IF k = 17 THEN half
            ELSE IF all[k + 1] # 5 THEN (IF all[k + 1] < 5 THEN -1 ELSE 1)
            ELSE IF half # -2 \/ \E i \in (k + 2)..17 : all[i] # 0 THEN 1
            ELSE 0
        \* the two candidates of k digits, the nearer to v first
        Ordered(down, up, rest) ==
            IF rest > 0 \/ (rest = 0 /\ down.digits[Len(down.digits)] % 2 = 1)
            THEN << up, down >> ELSE << down, up >>
        Up(next, n, k) ==
            IF Len(next) > k THEN Candidate(SubSeq(next, 1, k), n + 1) ELSE Candidate(next, n)
        Candidates(all, half, n, k) ==
            Ordered(Candidate(SubSeq(all, 1, k), n),
                    IF k = 17 /\ half = -2 THEN Candidate(all, n)
                    ELSE Up(NextDigits(SubSeq(all, 1, k)), n, k),
                    Rest(all, half, k))
        \* the candidates of the fewest digits from low to high that are
        \* read back as v
        RECURSIVE Fewest(_, _, _, _, _)
        Fewest(all, half, n, low, high) ==
            LET Middle(k, hits) ==
                    IF low >= high THEN hits
                    ELSE IF hits # << >> THEN Fewest(all, half, n, low, k)
                    ELSE Fewest(all, half, n, k + 1, high)
                Tried(k) == Middle(k, SelectSeq(Candidates(all, half, n, k), Reads))
            IN Tried((low + high) \div 2)
        \* half is -2 when nothing follows the 17 digits
        Taken(s) ==
            Head(Fewest(NatDigits(s.r.q),
                        IF s.r.r = << >> THEN -2 ELSE NatCompare(NatScaled(s.r.r, 2, 0), s.d),
                        s.n, 1, 17))
        Magnitude(p) == Taken(SeventeenDigits(p, ((NatBits(p.m) + p.e - 1) * 30103) \div 100000 + 1))
    IN Magnitude(Parts(v))

\* Number.prototype.toString of a Number
NumberToChars(v) ==
    LET Digit(ds) == Limbs([i \in 1..Len(ds) |-> DecimalDigits[ds[i] + 1]])
        Zeros(count) == [i \in 1..count |-> "0"]
        Exponent(e) == << "e", IF e < 0 THEN "-" ELSE "+" >> \o NatToChars(Abs(e))
        Layout(ds, k, n) ==
            IF k <= n /\ n <= 21 THEN ds \o Zeros(n - k)
            ELSE IF 0 < n /\ n <= 21 THEN SubSeq(ds, 1, n) \o << "." >> \o SubSeq(ds, n + 1, k)
            ELSE IF -6 < n /\ n <= 0 THEN << "0", "." >> \o Zeros(-n) \o ds
            ELSE IF k = 1 THEN ds \o Exponent(n - 1)
            ELSE << ds[1], "." >> \o SubSeq(ds, 2, k) \o Exponent(n - 1)
        Shortest(c) == Layout(Digit(c.digits), Len(c.digits), c.n)
    IN IF v.s = "" THEN IntToChars(v.n)
       ELSE IF v.s = "NaN" THEN << "N", "a", "N" >>
       ELSE IF v.s = "Infinity"
       THEN (IF v.n < 0 THEN << "-" >> ELSE << >>) \o << "I", "n", "f", "i", "n", "i", "t", "y" >>
       ELSE (IF v.n < 0 THEN << "-" >> ELSE << >>) \o Shortest(ShortestDigits([v EXCEPT !.n = 1]))

\* the double nearest to sign * d * 10^exponent for the natural number d the
\* decimal digits chars spell
DigitsToNumber(sign, chars, exponent) ==
    DecimalToNumber(sign, NatFromDigits(chars, 0, Len(chars), 10), exponent)
\* parseInt of a run of digits of a radix that is a power of 2: the integer
\* they spell, rounded
RadixToNumber(src, from, to, radix) == RoundNearest(1, NatFromDigits(src, from, to, radix), 0, FALSE)

(***************************************************************************)
(* Lexer, continued                                                        *)
(***************************************************************************)

\* index after the end of the comment that starts at idx
RECURSIVE skipComment(_, _)
skipComment(src, idx) ==
    IF reachedEndOfSource(src, idx) THEN idx
    ELSE IF CharAt(src, idx) = "\n" THEN idx + 1
    ELSE skipComment(src, idx + 1)

RECURSIVE skipSpaces(_, _)
skipSpaces(src, idx) ==
    LET ch == CharAt(src, idx)
    IN CASE ch \in {" ", "\t", "\r", "\n"} -> skipSpaces(src, idx + 1)
         [] ch = "#" -> skipSpaces(src, skipComment(src, idx))
         [] OTHER -> idx

\* the keyword table of #lexIdentifier
Keywords == {"is", "and", "or", "true", "false", "undefined", "for", "while", "break",
             "continue", "fun", "return", "if", "else", "let", "const", "import"}
KeywordType(identifier) ==
    CASE identifier = "is" -> "IS" [] identifier = "and" -> "AND" [] identifier = "or" -> "OR"
      [] identifier = "true" -> "TRUE" [] identifier = "false" -> "FALSE"
      [] identifier = "undefined" -> "UNDEFINED" [] identifier = "for" -> "FOR"
      [] identifier = "while" -> "WHILE" [] identifier = "break" -> "BREAK"
      [] identifier = "continue" -> "CONTINUE" [] identifier = "fun" -> "FUN"
      [] identifier = "return" -> "RETURN" [] identifier = "if" -> "IF"
      [] identifier = "else" -> "ELSE" [] identifier = "let" -> "LET"
      [] identifier = "const" -> "CONST" [] identifier = "import" -> "IMPORT"
      [] OTHER -> "IDENTIFIER"

\* start is the index of the first character of the lexeme (after #rewind)
lexIdentifier(src, start) ==
    LET end == ScanWhile(src, start, "identifier")
        identifier == Substring(src, start, end)
    IN [tok |-> Token(KeywordType(identifier), identifier, 0), idx |-> end]

\* #readHexNumber, #readOctalNumber, #readBinaryNumber; idx is after the radix letter
readRadixNumber(src, idx, kind, radix) ==
    LET end == ScanWhile(src, idx, kind)
    IN IF end = idx
       THEN [tok |-> Token("ERROR", "expected number", 0), idx |-> idx]
       ELSE [tok |-> NumberToken(RadixToNumber(src, idx, end, radix)), idx |-> end]

\* #readDecimalNumber: parseFloat of the digits, with the point and the
\* fractional digits when a point follows
readDecimalNumber(src, idx) ==
    LET Parsed(end, stop) ==
            IF end = idx
            THEN [tok |-> Token("ERROR", "expected decimal number", 0), idx |-> idx]
            ELSE [tok |-> NumberToken(DigitsToNumber(1, SubSeq(src, idx + 1, end)
                                                            \o SubSeq(src, end + 2, stop),
                                                     IF stop > end THEN end + 1 - stop ELSE 0)),
                  idx |-> stop]
        Integer(end) ==
            Parsed(end, IF CharAt(src, end) = "." THEN ScanWhile(src, end + 1, "digit") ELSE end)
    IN Integer(ScanWhile(src, idx, "digit"))

\* start is the index of the first digit
lexNumber(src, start) ==
    LET radix == CharAt(src, start + 1)
    IN IF CharAt(src, start) = "0" /\ radix = "x" THEN readRadixNumber(src, start + 2, "hex", 16)
       ELSE IF CharAt(src, start) = "0" /\ radix = "o" THEN readRadixNumber(src, start + 2, "octal", 8)
       ELSE IF CharAt(src, start) = "0" /\ radix = "b" THEN readRadixNumber(src, start + 2, "binary", 2)
       ELSE readDecimalNumber(src, start)

SimpleEscapes == {"f", "n", "r", "t", "v", "0", "\\", "'", "\""}
\* the character an escape letter stands for (form feed, vertical tab and NUL
\* have no TLA+ literal and are kept as two-character markers)
EscapeChar(escape) ==
    CASE escape = "n" -> "\n" [] escape = "r" -> "\r" [] escape = "t" -> "\t"
      [] escape = "f" -> "\\f" [] escape = "v" -> "\\v" [] escape = "0" -> "\\0"
      [] OTHER -> escape

\* idx is after the opening quote; str holds the characters decoded so far.
\* A \x escape appends the number its two hex digits spell, in decimal
\* digits (#readHexEscapeSequence returns a number); a \u escape appends the
\* character of the code its four hex digits spell.
RECURSIVE lexString(_, _, _)
lexString(src, idx, str) ==
    LET ch == CharAt(src, idx)
        escape == CharAt(src, idx + 1)
        count == IF escape = "x" THEN 2 ELSE 4
    IN IF reachedEndOfSource(src, idx) THEN [tok |-> Token("ERROR", "unclosed string", 0), idx |-> idx]
       ELSE IF ch = "\n" THEN [tok |-> Token("ERROR", "unclosed string", 0), idx |-> idx]
       ELSE IF ch = "\"" THEN [tok |-> StringToken(str), idx |-> idx + 1]
       ELSE IF ch = "\\" THEN
            IF escape \in SimpleEscapes THEN lexString(src, idx + 2, Append(str, EscapeChar(escape)))
            ELSE IF escape \in {"x", "u"} THEN
                 IF \A k \in 0..(count - 1) : isHex(CharAt(src, idx + 2 + k))
                 THEN lexString(src, idx + 2 + count,
                                IF escape = "x"
                                THEN str \o NatToChars(ParseInt(src, idx + 2, idx + 4, 16))
                                ELSE Append(str, CharFromCode(ParseInt(src, idx + 2, idx + 6, 16))))
                 ELSE [tok |-> Token("ERROR", "expected hex number", 0),
                       idx |-> 1 + (CHOOSE j \in (idx + 2)..(idx + 1 + count) :
                                       /\ ~isHex(CharAt(src, j))
                                       /\ \A k \in (idx + 2)..(j - 1) : isHex(CharAt(src, k)))]
            ELSE [tok |-> Token("ERROR", "invalid escape sequence", 0), idx |-> idx + 2]
       ELSE lexString(src, idx + 1, Append(str, ch))

\* TokenType of a one-character token, and of the same character followed by
\* its second character (the switch of #nextToken)
SingleCharType(ch) ==
    CASE ch = "(" -> "LPAREN" [] ch = ")" -> "RPAREN" [] ch = "[" -> "LBRACKET"
      [] ch = "]" -> "RBRACKET" [] ch = "{" -> "LBRACE" [] ch = "}" -> "RBRACE"
      [] ch = "$" -> "DOLLAR" [] ch = "#" -> "HASH" [] ch = "," -> "COMMA" [] ch = "." -> "DOT"
      [] ch = ";" -> "SEMICOLON" [] ch = "+" -> "PLUS" [] ch = "-" -> "MINUS"
      [] ch = "*" -> "STAR" [] ch = "/" -> "SLASH" [] ch = "%" -> "PERCENT"
      [] ch = "?" -> "QUESTION" [] ch = ":" -> "COLON" [] ch = "!" -> "BANG"
      [] ch = "=" -> "EQUAL" [] ch = "<" -> "LESS" [] ch = ">" -> "GREATER"
      [] ch = "|" -> "PIPE" [] ch = "&" -> "AMPERSAND" [] ch = "^" -> "CARET"
      [] OTHER -> "ERROR"
SecondChar(ch) ==
    CASE ch \in {"+", "-", "*", "%", "!", "=", "<", ">"} -> "="
      [] ch = "|" -> "|" [] ch = "&" -> "&"
      [] OTHER -> ""
DoubleCharType(ch) ==
    CASE ch = "+" -> "PLUS_EQUAL" [] ch = "-" -> "MINUS_EQUAL" [] ch = "*" -> "STAR_EQUAL"
      [] ch = "%" -> "PERCENT_EQUAL" [] ch = "!" -> "BANG_EQUAL" [] ch = "=" -> "EQUAL_EQUAL"
      [] ch = "<" -> "LESS_EQUAL" [] ch = ">" -> "GREATER_EQUAL"
      [] ch = "|" -> "OR" [] ch = "&" -> "AND"
      [] OTHER -> "ERROR"

\* Lexer.#nextToken: the token that starts at or after idx and the index after it
nextToken(src, idx0) ==
    LET idx == skipSpaces(src, idx0)
        ch == CharAt(src, idx)
        c2 == CharAt(src, idx + 1)
        c3 == CharAt(src, idx + 2)
    IN IF reachedEndOfSource(src, idx) THEN [tok |-> Token("EOF", "EOF", 0), idx |-> idx]
       ELSE IF isAlpha(ch) THEN lexIdentifier(src, idx)
       ELSE IF isDigit(ch) THEN lexNumber(src, idx)
       ELSE IF ch = "\"" THEN lexString(src, idx + 1, << >>)
       ELSE IF ch = "/" THEN
            IF c2 = "/" THEN
                 IF c3 = "=" THEN [tok |-> Token("SLASH_SLASH_EQUAL", ch, 0), idx |-> idx + 3]
                 ELSE [tok |-> Token("SLASH_SLASH", ch, 0), idx |-> idx + 2]
            ELSE IF c2 = "=" THEN [tok |-> Token("SLASH_EQUAL", ch, 0), idx |-> idx + 2]
            ELSE [tok |-> Token("SLASH", ch, 0), idx |-> idx + 1]
       ELSE IF SecondChar(ch) # "" /\ c2 = SecondChar(ch)
            THEN [tok |-> Token(DoubleCharType(ch), ch, 0), idx |-> idx + 2]
       ELSE IF SingleCharType(ch) # "ERROR"
            THEN [tok |-> Token(SingleCharType(ch), ch, 0), idx |-> idx + 1]
       ELSE [tok |-> Token("ERROR", "invalid/unexpected character", 0), idx |-> idx + 1]

\* The tokens the Lexer hands out for a source, up to and including the first
\* EOF (after which nextToken() and peek() keep returning EOF): n calls of
\* nextToken in sequence (the first half of them, then the rest), done once
\* EOF has been handed out
RECURSIVE LexFrom(_, _, _)
LexFrom(src, r, n) ==
    IF r.done \/ n = 0 THEN r
    ELSE IF n = 1
         THEN LET Handed(t) ==
                      [toks |-> Append(r.toks, t.tok), idx |-> t.idx,
                       done |-> t.tok.type = "EOF"]
              IN Handed(nextToken(src, r.idx))
         ELSE LexFrom(src, LexFrom(src, r, n \div 2), n - (n \div 2))
Lex(src) == LexFrom(src, [toks |-> << >>, idx |-> 0, done |-> FALSE], Len(src) + 1).toks

KERNEL == <<
    "\n", "(", "w", "h", "i", "l", "e", " ", "t", "r", "u", "e", " ", "(", "\n",
    " ", " ", "(", "i", "f", " ", "(", "_", "_", "n", "e", "e", "d", "s", "_", "u", "p", "d", "a", "t", "e", ")", " ", "(", "\n",
    " ", " ", " ", " ", "(", "u", "p", "d", "a", "t", "e", ")", "\n",
    " ", " ", ")", ")", "\n",
    " ", " ", "(", "i", "f", " ", "(", "_", "_", "n", "e", "e", "d", "s", "_", "d", "r", "a", "w", ")", " ", "(", "\n",
    " ", " ", " ", " ", "(", "c", "l", "e", "a", "r", ")", "\n",
    " ", " ", " ", " ", "(", "d", "r", "a", "w", ")", "\n",
    " ", " ", ")", ")", "\n",
    ")", ")", "\n" >>

(***************************************************************************)
(* Compiler                                                                *)
(***************************************************************************)

Opcode == [GET_CONST |-> 0, DEF_VARIABLE |-> 1, GET_VARIABLE |-> 2, SET_VARIABLE |-> 3,
           TRUE |-> 4, FALSE |-> 5, POP |-> 6,
           EQUAL |-> 7, NOT_EQUAL |-> 8, GREATER |-> 9, GREATER_EQUAL |-> 10,
           LESS |-> 11, LESS_EQUAL |-> 12,
           ADD |-> 13, SUB |-> 14, MUL |-> 15, DIV |-> 16, MOD |-> 17,
           NEGATE |-> 18, NOT |-> 19,
           JUMP |-> 20, JUMP_IF_FALSE |-> 21, DUP |-> 22,
           CALL |-> 23, RETURN |-> 24, DOT |-> 25, IS |-> 26, IMPORT |-> 27]

\* The compiler's fields.  toks/pos stand for the Lexer: toks[pos] is the
\* lookahead token (#curr), token is Compiler.#token.  thrown records that an
\* exception is propagating: every operation below leaves such a state as it is.
NewCompiler(source) ==
    [toks |-> Lex(source), pos |-> 1, token |-> Token("ERROR", "", 0),
     constants |-> << >>, opcodes |-> << >>, thrown |-> FALSE]

\* Compiler.#peek / Lexer.peek
peek(c) == c.toks[IF c.pos <= Len(c.toks) THEN c.pos ELSE Len(c.toks)]

\* Compiler.#next / Lexer.nextToken
next(c) ==
    IF c.thrown THEN c
    ELSE [c EXCEPT !.token = peek(c),
                   !.pos = IF c.pos < Len(c.toks) THEN c.pos + 1 ELSE c.pos]

\* Compiler.#throw, and the TypeError of calling a missing handler
throw(c) == [c EXCEPT !.thrown = TRUE]

emit(c, ops) == IF c.thrown THEN c ELSE [c EXCEPT !.opcodes = c.opcodes \o ops]

getFP(c) == Len(c.opcodes) - 1

\* this.#opcodes[at] = value
patch(c, at, value) == IF c.thrown THEN c ELSE [c EXCEPT !.opcodes[at + 1] = value]

expect(c, type) ==
    LET Check(c1) == IF c1.thrown THEN c1 ELSE IF c1.token.type # type THEN throw(c1) ELSE c1
    IN Check(next(c))

\* Index a constant gets: names (primitive strings) are found by value, a Value
\* object is a new object and is never found.
constantIndex(c, value) ==
    IF value.t = "RawStr" /\ \E i \in 1..Len(c.constants) : c.constants[i] = value
    THEN (CHOOSE i \in 1..Len(c.constants) :
             /\ c.constants[i] = value
             /\ \A j \in 1..(i - 1) : c.constants[j] # value) - 1
    ELSE Len(c.constants)

defineConstant(c, value) ==
    IF c.thrown \/ constantIndex(c, value) < Len(c.constants) THEN c
    ELSE [c EXCEPT !.constants = Append(c.constants, value)]

ReverseSeq(seq) == [i \in 1..Len(seq) |-> seq[Len(seq) + 1 - i]]

BinaryHandlers == [PLUS |-> Opcode.ADD, STAR |-> Opcode.MUL, SLASH |-> Opcode.DIV,
                   PERCENT |-> Opcode.MOD, DOT |-> Opcode.DOT, EQUAL_EQUAL |-> Opcode.EQUAL,
                   BANG_EQUAL |-> Opcode.NOT_EQUAL, LESS |-> Opcode.LESS,
                   LESS_EQUAL |-> Opcode.LESS_EQUAL, GREATER |-> Opcode.GREATER,
                   GREATER_EQUAL |-> Opcode.GREATER_EQUAL, IS |-> Opcode.IS]
BinaryAssignHandlers == [PLUS_EQUAL |-> Opcode.ADD, MINUS_EQUAL |-> Opcode.SUB,
                         STAR_EQUAL |-> Opcode.MUL, SLASH_EQUAL |-> Opcode.DIV,
                         PERCENT_EQUAL |-> Opcode.MOD]

RECURSIVE sExpression(_), expression(_), block(_), callArguments(_, _), funArguments(_, _)

\* Compiler.step
step(c) == sExpression(next(c))

identifier(c) ==
    emit(defineConstant(c, RawStr(c.token.s)),
         << Opcode.GET_VARIABLE, constantIndex(c, RawStr(c.token.s)) >>)

string(c) ==
    emit(defineConstant(c, StringValue(c.token.chars)), << Opcode.GET_CONST, Len(c.constants) >>)

number(c) ==
    emit(defineConstant(c, c.token.n), << Opcode.GET_CONST, Len(c.constants) >>)

sExpression(c) ==
    IF c.thrown THEN c
    ELSE CASE c.token.type = "LPAREN" -> expression(next(c))
           [] c.token.type = "IDENTIFIER" -> identifier(c)
           [] c.token.type = "STRING" -> string(c)
           [] c.token.type = "NUMBER" -> number(c)
           [] c.token.type = "TRUE" -> emit(c, << Opcode.TRUE >>)
           [] c.token.type = "FALSE" -> emit(c, << Opcode.FALSE >>)
           [] OTHER -> throw(c)

block(c) ==
    LET Form(c1) == IF c1.thrown \/ c1.token.type = "RPAREN" THEN c1 ELSE block(sExpression(c1))
    IN Form(next(c))

binary(c, op) == emit(step(step(c)), << op >>)

binaryAssign(c, op) ==
    LET Assign(c1, idx) ==
            emit(step(emit(defineConstant(c1, RawStr(c1.token.s)), << Opcode.GET_VARIABLE, idx >>)),
                 << op, Opcode.SET_VARIABLE, idx >>)
        Name(c1) == Assign(c1, constantIndex(c1, RawStr(c1.token.s)))
    IN Name(expect(c, "IDENTIFIER"))

\* TokenType.MINUS handler
minusHandler(c) ==
    LET Operand(c1) ==
            IF c1.thrown THEN c1
            ELSE IF peek(c1).type = "RPAREN" THEN emit(c1, << Opcode.NEGATE >>)
            ELSE emit(step(c1), << Opcode.SUB >>)
    IN Operand(step(c))

\* TokenType.EQUAL handler
equalHandler(c) ==
    LET Store(c2, name) ==
            emit(defineConstant(c2, name), << Opcode.SET_VARIABLE, constantIndex(c2, name) >>)
        Name(c1) == Store(step(c1), RawStr(c1.token.s))
    IN Name(expect(c, "IDENTIFIER"))

\* the argument loop of the TokenType.IDENTIFIER handler; the result carries
\* the compiler and the number of arguments compiled
callArguments(c, argCount) ==
    IF c.thrown \/ peek(c).type = "RPAREN" THEN [c |-> c, argCount |-> argCount]
    ELSE callArguments(step(c), argCount + 1)

\* TokenType.IDENTIFIER handler
callHandler(c) ==
    LET Call(r, idx) == emit(r.c, << Opcode.CALL, r.argCount, idx >>)
    IN Call(callArguments(defineConstant(c, RawStr(c.token.s)), 0),
            constantIndex(c, RawStr(c.token.s)))

\* a variant of the TokenType.WHILE handler below whose backward JUMP goes two
\* slots too far
whileHandlerFar(c) ==
    LET Body(c2, fpCondition, fpPatch, fpCurrent) ==
            emit(patch(c2, fpPatch, fpCurrent - fpPatch + 2),
                 << Opcode.JUMP, fpCondition - fpCurrent - 4 >>)
        Block(c2, fpCondition, fpPatch) == Body(c2, fpCondition, fpPatch, getFP(c2))
        Condition(c1, fpCondition) == Block(block(next(c1)), fpCondition, getFP(c1))
    IN Condition(emit(step(c), << Opcode.JUMP_IF_FALSE, 0 >>), getFP(c))

\* TokenType.WHILE handler
whileHandler(c) ==
    LET Body(c2, fpCondition, fpPatch, fpCurrent) ==
            emit(patch(c2, fpPatch, fpCurrent - fpPatch + 2),
                 << Opcode.JUMP, fpCondition - fpCurrent - 2 >>)
        Block(c2, fpCondition, fpPatch) == Body(c2, fpCondition, fpPatch, getFP(c2))
        Condition(c1, fpCondition) == Block(block(next(c1)), fpCondition, getFP(c1))
    IN Condition(emit(step(c), << Opcode.JUMP_IF_FALSE, 0 >>), getFP(c))

\* the parameter loop of the TokenType.FUN handler
funArguments(c, args) ==
    IF c.thrown \/ peek(c).type # "IDENTIFIER" THEN [c |-> c, args |-> args]
    ELSE funArguments(next(c), Append(args, peek(c).s))

\* a variant of the TokenType.FUN handler below that leaves the opcodes of the
\* body in the enclosing code array
funHandlerKeepingBody(c) ==
    LET Emit(c5, name, fnIdx) ==
            emit(defineConstant(c5, RawStr(name)),
                 << Opcode.GET_CONST, fnIdx, Opcode.DEF_VARIABLE, constantIndex(c5, RawStr(name)) >>)
        Define(c4, fn) == Emit(defineConstant(c4, fn), fn.s, Len(c4.constants))
        Slice(c3, name, args, fp) ==
            Define(c3,
                   FunctionValue(name, args,
                                 Append(SubSeq(c3.opcodes, fp + 1, Len(c3.opcodes)), Opcode.RETURN)))
        Block(c2, name, args) == Slice(block(next(c2)), name, args, getFP(c2) + 1)
        Arguments(r, name) == Block(expect(r.c, "RPAREN"), name, ReverseSeq(r.args))
        Name(c1) == Arguments(funArguments(expect(c1, "LPAREN"), << >>), c1.token.s)
    IN Name(expect(c, "IDENTIFIER"))

\* TokenType.FUN handler
funHandler(c) ==
    LET Emit(c5, name, fnIdx) ==
            emit(defineConstant(c5, RawStr(name)),
                 << Opcode.GET_CONST, fnIdx, Opcode.DEF_VARIABLE, constantIndex(c5, RawStr(name)) >>)
        Define(c4, fn) == Emit(defineConstant(c4, fn), fn.s, Len(c4.constants))
        Slice(c3, name, args, fp) ==
            Define(IF c3.thrown THEN c3 ELSE [c3 EXCEPT !.opcodes = SubSeq(c3.opcodes, 1, fp)],
                   FunctionValue(name, args,
                                 Append(SubSeq(c3.opcodes, fp + 1, Len(c3.opcodes)), Opcode.RETURN)))
        Block(c2, name, args) == Slice(block(next(c2)), name, args, getFP(c2) + 1)
        Arguments(r, name) == Block(expect(r.c, "RPAREN"), name, ReverseSeq(r.args))
        Name(c1) == Arguments(funArguments(expect(c1, "LPAREN"), << >>), c1.token.s)
    IN Name(expect(c, "IDENTIFIER"))

\* a variant of the TokenType.IF handler below whose JUMP_IF_FALSE goes one slot
\* further
ifHandlerFar(c) ==
    LET ElseBlock(c5, fpElse, fpElsePatch) == patch(c5, fpElsePatch, getFP(c5) - fpElse - 2)
        Else(c4, fpElse) == ElseBlock(block(next(c4)), fpElse, getFP(c4))
        CheckElse(c3, fpElse) ==
            IF c3.thrown \/ peek(c3).type # "LPAREN" THEN c3
            ELSE Else(emit(c3, << Opcode.JUMP, 0 >>), fpElse)
        TrueBlock(c2, fpIfPatch) ==
            CheckElse(patch(c2, fpIfPatch, getFP(c2) - fpIfPatch + 3), getFP(c2))
        Condition(c1) == TrueBlock(block(next(c1)), getFP(c1))
    IN Condition(emit(step(c), << Opcode.JUMP_IF_FALSE, 0 >>))

\* TokenType.IF handler
ifHandler(c) ==
    LET ElseBlock(c5, fpElse, fpElsePatch) == patch(c5, fpElsePatch, getFP(c5) - fpElse - 2)
        Else(c4, fpElse) == ElseBlock(block(next(c4)), fpElse, getFP(c4))
        CheckElse(c3, fpElse) ==
            IF c3.thrown \/ peek(c3).type # "LPAREN" THEN c3
            ELSE Else(emit(c3, << Opcode.JUMP, 0 >>), fpElse)
        TrueBlock(c2, fpIfPatch) ==
            CheckElse(patch(c2, fpIfPatch, getFP(c2) - fpIfPatch + 2), getFP(c2))
        Condition(c1) == TrueBlock(block(next(c1)), getFP(c1))
    IN Condition(emit(step(c), << Opcode.JUMP_IF_FALSE, 0 >>))

\* TokenType.LET handler
letHandler(c) ==
    LET Define(c2, name) ==
            emit(defineConstant(c2, name), << Opcode.DEF_VARIABLE, constantIndex(c2, name) >>)
        Name(c1) == Define(step(c1), RawStr(c1.token.s))
    IN Name(expect(c, "IDENTIFIER"))

\* TokenType.IMPORT handler
importHandler(c) ==
    LET Name(c1) ==
            emit(defineConstant(c1, RawStr(c1.token.s)),
                 << Opcode.IMPORT, constantIndex(c1, RawStr(c1.token.s)) >>)
    IN Name(expect(c, "IDENTIFIER"))

\* the handler table of Compiler.#initHandlers, applied to the current token
handler(c) ==
    LET type == c.token.type
    IN CASE type = "LPAREN" -> expression(next(c))
         [] type \in DOMAIN BinaryHandlers -> binary(c, BinaryHandlers[type])
         [] type \in DOMAIN BinaryAssignHandlers -> binaryAssign(c, BinaryAssignHandlers[type])
         [] type = "MINUS" -> minusHandler(c)
         [] type = "EQUAL" -> equalHandler(c)
         [] type = "BANG" -> emit(step(c), << Opcode.NOT >>)
         [] type = "IDENTIFIER" -> callHandler(c)
         [] type = "WHILE" -> whileHandler(c)
         [] type = "FUN" -> funHandler(c)
         [] type = "IF" -> ifHandler(c)
         [] type = "LET" -> letHandler(c)
         [] type = "IMPORT" -> importHandler(c)
         [] OTHER -> throw(c)

expression(c) == IF c.thrown THEN c ELSE expect(handler(c), "RPAREN")

\* the loop of Compiler.compile
RECURSIVE compileLoop(_)
compileLoop(c) ==
    LET Compiled(c2) == IF c2.thrown THEN c2 ELSE compileLoop(c2)
        Form(c1) ==
            IF c1.token.type = "ERROR" \/ peek(c1).type = "EOF" THEN c1
            ELSE Compiled(sExpression(c1))
    IN Form(next(c))

\* a variant of Compiler.compile below without the final RETURN
compileUnfinished(source) ==
    LET Result(c) ==
            [opcodes |-> c.opcodes, constants |-> c.constants,
             aborted |-> c.thrown \/ c.token.type = "ERROR"]
    IN Result(compileLoop(NewCompiler(source)))

\* Compiler.compile, then getOpcodes() and getConstants()
compile(source) ==
    LET Result(c) ==
            [opcodes |-> Append(c.opcodes, Opcode.RETURN), constants |-> c.constants,
             aborted |-> c.thrown \/ c.token.type = "ERROR"]
    IN Result(compileLoop(NewCompiler(source)))

(***************************************************************************)
(* Value operations (src/js/value.js)                                      *)
(*                                                                         *)
(* An operation yields a value, or Thrown when the JavaScript code throws: *)
(* a method called on something that is not a Value object, getType() or   *)
(* getValue() called on such an operand, and ErrorValue.getValue(), which  *)
(* always throws and is reached through ErrorValue.toString() whenever an  *)
(* Error value is formatted into a message.                                *)
(***************************************************************************)

Thrown == [t |-> "Thrown", n |-> 0, s |-> "", args |-> << >>, code |-> << >>]

\* new StringValue(undefined), the result of indexing a string below 0 or at
\* a fraction, and new StringValue(NaN), the sum of two of those: Strings
\* whose payload is no string
StringOfUndefined == [t |-> "String", n |-> 0, s |-> "undefined", args |-> << >>, code |-> << >>]
StringOfNaN == [t |-> "String", n |-> 0, s |-> "NaN", args |-> << >>, code |-> << >>]
\* the payload of the String v is a string
isText(v) == v.s = ""
\* the characters the payload of the String v contributes to a concatenation
StringText(v) ==
    IF v.s = "undefined" THEN << "u", "n", "d", "e", "f", "i", "n", "e", "d" >>
    ELSE IF v.s = "NaN" THEN << "N", "a", "N" >>
    ELSE v.args

\* the base-class result, an ErrorValue whose message formats both operands
baseError(a, b) == IF a.t = "Error" \/ b.t = "Error" THEN Thrown ELSE ErrorValue("cannot perform")

\* ordering of strings: JavaScript compares them code unit by code unit
RECURSIVE StringLess(_, _)
StringLess(x, y) ==
    LET Units(a, b) == IF a # b THEN a < b ELSE StringLess(Tail(x), Tail(y))
    IN IF y = << >> THEN FALSE
       ELSE IF x = << >> THEN TRUE
       ELSE Units(CharCode(Head(x)), CharCode(Head(y)))

RECURSIVE Repeat(_, _)
Repeat(chars, count) == IF count <= 0 THEN << >> ELSE chars \o Repeat(chars, count - 1)

\* the length of the longest string the engine builds, 2^29 - 24
MaxStringLength == 536870888

\* rhsValue.repeat(value): the count is truncated, NaN counts as 0; a count
\* that is negative or infinite is a RangeError ("Invalid count value"); the
\* empty string repeats to itself; any other string whose result would be
\* longer than MaxStringLength characters is a RangeError as well ("Invalid
\* string length")
repeat(chars, count) ==
    LET Times(whole) ==
            IF whole.s = "Infinity" \/ whole.n < 0 THEN Thrown
            ELSE IF chars = << >> THEN StringValue(chars)
            ELSE IF whole.s = "Double" \/ whole.n > MaxStringLength \div Len(chars) THEN Thrown
            ELSE StringValue(Repeat(chars, whole.n))
    IN IF isNaN(count) THEN StringValue(<< >>) ELSE Times(NumberTruncated(count))

add(a, b) ==
    IF ~IsValue(a) THEN Thrown
    ELSE IF a.t \in {"Number", "String"} THEN
         IF ~IsValue(b) THEN Thrown
         ELSE IF a.t = "Number" /\ b.t = "Number"
              THEN NumberSum(a, b)
         ELSE IF a.t = "String" /\ b.t = "String"
              THEN (IF isText(a) \/ isText(b) THEN StringValue(StringText(a) \o StringText(b))
                    ELSE StringOfNaN)
         ELSE baseError(a, b)
    ELSE baseError(a, b)

\* a.sub(b); a raw string has a method of this name, String.prototype.sub,
\* which wraps it in a sub element
sub(a, b) ==
    IF a.t = "RawStr" THEN RawStr("<sub>" \o a.s \o "</sub>")
    ELSE IF ~IsValue(a) THEN Thrown
    ELSE IF a.t = "Number" THEN
         IF ~IsValue(b) THEN Thrown
         ELSE IF b.t = "Number"
              THEN NumberSum(a, NumberNegated(b))
         ELSE baseError(a, b)
    ELSE baseError(a, b)

mul(a, b) ==
    IF ~IsValue(a) THEN Thrown
    ELSE IF a.t = "Number" THEN
         IF ~IsValue(b) \/ b.t = "Error" THEN Thrown
         ELSE IF b.t = "Number"
              THEN NumberProduct(a, b)
         ELSE IF b.t = "String"
              THEN (IF ~isText(b) THEN Thrown ELSE repeat(b.args, a))
         ELSE baseError(a, b)
    ELSE baseError(a, b)

div(a, b) ==
    IF ~IsValue(a) THEN Thrown
    ELSE IF a.t = "Number" THEN
         IF ~IsValue(b) \/ b.t = "Error" THEN Thrown
         ELSE IF b.t = "Number" THEN
              IF b.n = 0 /\ ~isNaN(b) THEN ErrorValue("division by zero")
              ELSE NumberQuotient(a, b)
         ELSE baseError(a, b)
    ELSE baseError(a, b)

\* a variant of fdiv below that rounds toward zero
fdivTruncating(a, b) ==
    IF ~IsValue(a) THEN Thrown
    ELSE IF a.t = "Number" THEN
         IF ~IsValue(b) \/ b.t = "Error" THEN Thrown
         ELSE IF b.t = "Number" THEN
              IF b.n = 0 /\ ~isNaN(b) THEN ErrorValue("division by zero")
              ELSE NumberTruncated(NumberQuotient(a, b))
         ELSE baseError(a, b)
    ELSE baseError(a, b)

fdiv(a, b) ==
    IF ~IsValue(a) THEN Thrown
    ELSE IF a.t = "Number" THEN
         IF ~IsValue(b) \/ b.t = "Error" THEN Thrown
         ELSE IF b.t = "Number" THEN
              IF b.n = 0 /\ ~isNaN(b) THEN ErrorValue("division by zero")
              ELSE NumberFloor(NumberQuotient(a, b))
         ELSE baseError(a, b)
    ELSE baseError(a, b)

mod(a, b) ==
    IF ~IsValue(a) THEN Thrown
    ELSE IF a.t = "Number" THEN
         IF ~IsValue(b) \/ b.t = "Error" THEN Thrown
         ELSE IF b.t = "Number"
              THEN NumberRemainder(a, b)
         ELSE baseError(a, b)
    ELSE baseError(a, b)

negate(a) ==
    IF ~IsValue(a) THEN Thrown
    ELSE IF a.t = "Number" THEN NumberNegated(a)
    ELSE baseError(a, a)

not(a) ==
    IF ~IsValue(a) THEN Thrown
    ELSE IF a.t = "Bool" THEN BoolValue(a.n = 0)
    ELSE baseError(a, a)

eq(a, b) ==
    IF ~IsValue(a) THEN Thrown
    ELSE IF a.t \in {"Bool", "Number", "String"} THEN
         IF ~IsValue(b) THEN Thrown
         ELSE IF a.t # b.t THEN BoolValue(FALSE)
         ELSE IF a.t = "Number" THEN BoolValue(~isNaN(a) /\ ~isNaN(b) /\ a = b)
         ELSE IF a.t = "String" THEN BoolValue(a = b /\ a.s # "NaN")
         ELSE BoolValue(a = b)
    ELSE BoolValue(FALSE)

neq(a, b) ==
    LET Negated(equal) == IF equal = Thrown THEN Thrown ELSE not(equal)
    IN Negated(eq(a, b))

lt(a, b) ==
    IF ~IsValue(a) THEN Thrown
    ELSE IF a.t \in {"Number", "String"} THEN
         IF ~IsValue(b) THEN Thrown
         ELSE IF a.t = "Number" /\ b.t = "Number"
              THEN BoolValue(NumberLess(a, b))
         ELSE IF a.t = "String" /\ b.t = "String"
              THEN BoolValue(isText(a) /\ isText(b) /\ StringLess(a.args, b.args))
         ELSE baseError(a, b)
    ELSE baseError(a, b)

gt(a, b) ==
    IF ~IsValue(a) THEN Thrown
    ELSE IF a.t \in {"Number", "String"} THEN
         IF ~IsValue(b) THEN Thrown
         ELSE IF a.t = "Number" /\ b.t = "Number"
              THEN BoolValue(NumberLess(b, a))
         ELSE IF a.t = "String" /\ b.t = "String"
              THEN BoolValue(isText(a) /\ isText(b) /\ StringLess(b.args, a.args))
         ELSE baseError(a, b)
    ELSE baseError(a, b)

lteq(a, b) ==
    LET Negated(greater) ==
            IF greater = Thrown \/ greater.t = "Error" THEN greater ELSE not(greater)
    IN Negated(gt(a, b))
gteq(a, b) ==
    LET Negated(less) == IF less = Thrown \/ less.t = "Error" THEN less ELSE not(less)
    IN Negated(lt(a, b))

\* a.is(b); a Type compares the tag it stands for (kept in s) with its operand's
is(a, b) ==
    IF ~IsValue(a) \/ ~IsValue(b) THEN Thrown
    ELSE IF a.t = "Type" THEN BoolValue(b.t = a.s)
    ELSE IF b.t = "Type" THEN BoolValue(a.t = b.s)
    ELSE baseError(a, b)

dot(a, b) ==
    IF ~IsValue(a) THEN Thrown
    ELSE IF a.t = "String" THEN
         IF ~IsValue(b) THEN Thrown
         ELSE IF b.t = "Number" THEN
              IF a.s = "undefined" THEN Thrown
              ELSE IF a.s = "NaN" THEN StringOfUndefined
              ELSE IF ~isNaN(b) /\ ~NumberLess(b, NumberValue(Len(a.args)))
                   THEN ErrorValue("out of bounds")
              ELSE IF b.s = "" /\ b.n >= 0
                   THEN StringValue(<< a.args[b.n + 1] >>)
              ELSE StringOfUndefined
         ELSE baseError(a, b)
    ELSE baseError(a, b)

(***************************************************************************)
(* Environments (src/js/env.js).  An Env is a function from keys to        *)
(* values.  The Map of an Env finds a key that is a primitive (RawStr for  *)
(* a name, JSUndefined) by its value, and a key that is an object by its   *)
(* identity: two Value objects of the same class and payload are two keys. *)
(* A key that is an object is kept as ObjectKey(id), id naming the object. *)
(***************************************************************************)

ObjectKey(id) == [t |-> "Object", n |-> id, s |-> "", args |-> << >>, code |-> << >>]

NewEnv == [k \in {} |-> JSUndefined]
hasIdentifier(env, k) == k \in DOMAIN env
envGetIdentifier(env, k) == IF k \in DOMAIN env THEN env[k] ELSE JSUndefined
envSetIdentifier(env, k, v) == [x \in (DOMAIN env) \cup {k} |-> IF x = k THEN v ELSE env[x]]
\* a variant of addFromEnv below that keeps the bindings env has already
addFromEnvKeeping(env, other) ==
    [x \in (DOMAIN env) \cup (DOMAIN other) |-> IF x \in DOMAIN env THEN env[x] ELSE other[x]]

addFromEnv(env, other) ==
    [x \in (DOMAIN env) \cup (DOMAIN other) |-> IF x \in DOMAIN other THEN other[x] ELSE env[x]]

\* the game library registered by the host before any program is loaded
\* (createLibrary): one NativeFunction for each own property of
\* GameLib.prototype, the constructor included; of the two methods named
\* fillColor the class keeps the second, which has one parameter
GameLibrary ==
    envSetIdentifier(envSetIdentifier(envSetIdentifier(envSetIdentifier(NewEnv,
        RawStr("constructor"), NativeFunctionValue("constructor", 1)),
        RawStr("fill_color"), NativeFunctionValue("fill_color", 1)),
        RawStr("draw_rect"), NativeFunctionValue("draw_rect", 4)),
        RawStr("clear"), NativeFunctionValue("clear", 0))
Libraries == [k \in {RawStr("game")} |-> GameLibrary]
\* the property key that names v in this.#libraries[v]: the text of a String
\* is the name it spells
PropertyKey(v) ==
    IF v.t = "String" /\ v.s = "" THEN RawStr(Substring(v.args, 0, Len(v.args))) ELSE v

\* the Env built by VM.#initGlobalEnv
GlobalEnv ==
    [k \in {RawStr("bool"), RawStr("number"), RawStr("string"), RawStr("function"),
            RawStr("__needs_update"), RawStr("__needs_draw"), RawStr("print")} |->
        CASE k.s = "bool" -> TypeValue("Bool")
          [] k.s = "number" -> TypeValue("Number")
          [] k.s = "string" -> TypeValue("String")
          [] k.s = "function" -> TypeValue("Function")
          [] k.s = "print" -> NativeFunctionValue("print", -1)
          [] OTHER -> NativeFunctionValue(k.s, 0)]

(***************************************************************************)
(* Virtual machine (src/js/vm.js)                                          *)
(*                                                                         *)
(* The private operations are functions of a record vm of the VM's fields. *)
(* intervals is the host's table of live setInterval timers, console the   *)
(* sequence of argument lists handed to print.                             *)
(***************************************************************************)

VMStatus == [STOPPED |-> 0, PAUSED |-> 1, RUNNING |-> 2]

\* number of #step calls of one #multiStep
MultiStepCount == 160
\* quotas of #push and #pushEnv
StackLimit == 65536
EnvLimit == 256

\* bounds of the model: the largest program counter, the deepest frame stack,
\* the number of values on the value stack besides one saved pc per frame, and
\* the longest console a step may leave behind
MaxPC == 200
MaxFrames == 258
MaxValues == 2
MaxConsole == 3

\* a handler's outcome: the fields it leaves and whether it threw
Ok(vm) == [vm |-> vm, thrown |-> FALSE]
Throw(vm) == [vm |-> vm, thrown |-> TRUE]

\* a fetched code slot: def is FALSE for the undefined read outside the array
Slot(code, idx) ==
    IF idx >= 0 /\ idx < Len(code) THEN [def |-> TRUE, n |-> code[idx + 1]]
    ELSE [def |-> FALSE, n |-> 0]

\* raw numbers that are no integers below 2^31: the finite double
\* sign * m * 2^e with m odd (args is e followed by the limbs of m), and the
\* two infinities (sign is 1 or -1)
RawDouble(sign, m, e) == [t |-> "RawDouble", n |-> sign, s |-> "", args |-> << e >> \o m, code |-> << >>]
RawInfinity(sign) == [t |-> "RawInfinity", n |-> sign, s |-> "", args |-> << >>, code |-> << >>]

\* the raw number a Number holds
RawNumber(num) ==
    IF num.s = "NaN" THEN JSNaN
    ELSE IF num.s = "Infinity" THEN RawInfinity(num.n)
    ELSE IF num.s = "" THEN RawInt(num.n)
    ELSE RawDouble(num.n, Tail(num.args), num.args[1])

\* white space and line terminators, which String.prototype.trim and the
\* conversion of a string to a number strip
StrWhiteSpace ==
    {" ", "\t", "\n", "\r", "\\v", "\\f", "\\u00a0", "\\u1680", "\\u2000", "\\u2001",
     "\\u2002", "\\u2003", "\\u2004", "\\u2005", "\\u2006", "\\u2007", "\\u2008", "\\u2009",
     "\\u200a", "\\u2028", "\\u2029", "\\u202f", "\\u205f", "\\u3000", "\\ufeff"}
RECURSIVE TrimStart(_)
TrimStart(chars) ==
    IF chars # << >> /\ Head(chars) \in StrWhiteSpace THEN TrimStart(Tail(chars)) ELSE chars
RECURSIVE TrimEnd(_)
TrimEnd(chars) ==
    IF chars # << >> /\ chars[Len(chars)] \in StrWhiteSpace
    THEN TrimEnd(SubSeq(chars, 1, Len(chars) - 1))
    ELSE chars
\* String.prototype.trim
Trim(chars) == TrimEnd(TrimStart(chars))

\* ToNumber of a string (StringToNumber), as the Number of the result: white
\* space around the literal is dropped and the empty string is 0; a literal
\* is a signed decimal with an optional fraction and exponent, a signed
\* Infinity, or an unsigned hexadecimal, octal or binary integer; any other
\* text is NaN
RadixLiteral(t, kind, radix) ==
    IF Len(t) > 2 /\ ScanWhile(t, 2, kind) = Len(t)
    THEN RadixToNumber(t, 2, Len(t), radix)
    ELSE NumberNaN
\* the parts of the decimal literal that starts after position i0 of t: the
\* digits end at e1, the fraction at e2, the exponent's digits start after x1
\* and end at e3
LiteralParts(t, i0) ==
    LET Exponent(e1, e2, x1) ==
            [e1 |-> e1, e2 |-> e2, x1 |-> x1,
             e3 |-> IF x1 > e2 THEN ScanWhile(t, x1, "digit") ELSE e2]
        Fraction(e1, e2) ==
            Exponent(e1, e2, IF CharAt(t, e2) \notin {"e", "E"} THEN e2
                             ELSE IF CharAt(t, e2 + 1) \in {"+", "-"} THEN e2 + 2
                             ELSE e2 + 1)
        Digits(e1) == Fraction(e1, IF CharAt(t, e1) = "." THEN ScanWhile(t, e1 + 1, "digit") ELSE e1)
    IN Digits(ScanWhile(t, i0, "digit"))
\* the exponent the digits spell; one of more than two limbs is beyond every
\* double
LiteralScale(digits, negative) ==
    (IF negative THEN -1 ELSE 1) * (IF Len(digits) > 2 THEN 1073741824 ELSE NatToInt(digits))
DecimalLiteral(t, sign, i0, p) ==
    IF \/ p.e2 - i0 - (IF p.e2 > p.e1 THEN 1 ELSE 0) = 0
       \/ (p.e3 > p.e2 /\ p.e3 = p.x1)
       \/ p.e3 # Len(t)
    THEN NumberNaN
    ELSE DigitsToNumber(sign, SubSeq(t, i0 + 1, p.e1) \o SubSeq(t, p.e1 + 2, p.e2),
                        LiteralScale(NatFromDigits(t, p.x1, p.e3, 10),
                                     p.e3 > p.e2 /\ CharAt(t, p.e2 + 1) = "-")
                            - (IF p.e2 > p.e1 THEN p.e2 - p.e1 - 1 ELSE 0))
SignedLiteral(t, sign, i0) ==
    IF SubSeq(t, i0 + 1, Len(t)) = << "I", "n", "f", "i", "n", "i", "t", "y" >>
    THEN NumberInfinity(sign)
    ELSE DecimalLiteral(t, sign, i0, LiteralParts(t, i0))
StringNumericLiteral(t) ==
    IF t = << >> THEN NumberValue(0)
    ELSE IF Len(t) >= 2 /\ t[1] = "0" /\ t[2] \in {"x", "X", "o", "O", "b", "B"}
    THEN RadixLiteral(t, IF t[2] \in {"x", "X"} THEN "hex"
                         ELSE IF t[2] \in {"o", "O"} THEN "octal" ELSE "binary",
                      IF t[2] \in {"x", "X"} THEN 16 ELSE IF t[2] \in {"o", "O"} THEN 8 ELSE 2)
    ELSE SignedLiteral(t, IF t[1] = "-" THEN -1 ELSE 1, IF t[1] \in {"+", "-"} THEN 1 ELSE 0)
StringToNumber(chars) == StringNumericLiteral(Trim(chars))

\* the Number that holds the raw number fp; what is no number is NaN
NumberOfRaw(fp) ==
    CASE fp.t = "RawInt" -> NumberValue(fp.n)
      [] fp.t = "RawDouble" -> NumberDouble(fp.n, Tail(fp.args), fp.args[1])
      [] fp.t = "RawInfinity" -> NumberInfinity(fp.n)
      [] OTHER -> NumberNaN

\* ToNumeric(fp) as fp++ computes it, as the Number of the result.  A raw
\* number is itself and undefined is NaN; a raw string is a name, of which
\* only Infinity spells a number.  A Value object converts through its
\* toString(): a Number to its value, a String to the number its payload
\* spells, the others to NaN (ErrorValue.toString throws: see vmNext).
PcNumber(fp) ==
    CASE fp.t = "RawStr" -> (IF fp.s = "Infinity" THEN NumberInfinity(1) ELSE NumberNaN)
      [] fp.t = "Number" -> fp
      [] fp.t = "String" -> (IF isText(fp) THEN StringToNumber(fp.args) ELSE NumberNaN)
      [] OTHER -> NumberOfRaw(fp)

\* fp + k for the number fp converts to
PcPlus(num, k) == NumberSum(num, NumberValue(k))

\* VM.#next: the slot read, the fields after fp++; escaped when fp++ throws,
\* and when there is no frame to read from (no program was loaded): the
\* property access on undefined throws after fp++ has been evaluated.  Only
\* an integer indexes a slot.
vmNext(vm) ==
    LET Read(num, after) ==
            IF vm.frameIdx + 1 > Len(vm.frames)
            THEN [vm |-> after, slot |-> [def |-> FALSE, n |-> 0], escaped |-> TRUE]
            ELSE [vm |-> after,
                  slot |-> IF num.s = ""
                           THEN Slot(vm.frames[vm.frameIdx + 1], num.n)
                           ELSE [def |-> FALSE, n |-> 0],
                  escaped |-> FALSE]
        Incremented(num) == Read(num, [vm EXCEPT !.fp = RawNumber(PcPlus(num, 1))])
    IN IF vm.fp.t = "Error" THEN [vm |-> vm, slot |-> [def |-> FALSE, n |-> 0], escaped |-> TRUE]
       ELSE Incremented(PcNumber(vm.fp))

\* this.#constants[idx]
constantAt(vm, slot) ==
    IF slot.def /\ slot.n >= 0 /\ slot.n < Len(vm.constants) THEN vm.constants[slot.n + 1]
    ELSE JSUndefined

\* the Map key of the constant at slot: a Value object among the constants is
\* known by its index (no two constants are the same object, see
\* Compiler.#defineConstant)
identifierAt(vm, slot) ==
    IF IsValue(constantAt(vm, slot)) THEN ObjectKey(slot.n) ELSE constantAt(vm, slot)

peekStack(vm) == IF vm.stack = << >> THEN JSUndefined ELSE vm.stack[Len(vm.stack)]

push(vm, value) ==
    IF Len(vm.stack) = StackLimit THEN vm ELSE [vm EXCEPT !.stack = Append(vm.stack, value)]

\* VM.#pop: the value popped (undefined from an empty stack) and the fields after
pop(vm) ==
    IF vm.stack = << >> THEN [vm |-> vm, value |-> JSUndefined]
    ELSE [vm |-> [vm EXCEPT !.stack = SubSeq(vm.stack, 1, Len(vm.stack) - 1)],
          value |-> vm.stack[Len(vm.stack)]]

\* a variant of VM.#pushEnv below without the quota
pushEnvUnbounded(vm, env) == [vm EXCEPT !.envs = Append(vm.envs, env)]

pushEnv(vm, env) ==
    IF Len(vm.envs) = EnvLimit THEN vm ELSE [vm EXCEPT !.envs = Append(vm.envs, env)]

popEnv(vm) ==
    IF vm.envs = << >> THEN vm ELSE [vm EXCEPT !.envs = SubSeq(vm.envs, 1, Len(vm.envs) - 1)]

pushFrame(vm, frame) ==
    LET vm1 == push(vm, vm.fp)
    IN [vm1 EXCEPT !.frames = Append(vm.frames, frame), !.frameIdx = vm.frameIdx + 1,
                   !.fp = RawInt(0)]

\* a variant of VM.#findIdentifier below that looks into the top Env and into
\* the global Env only
findIdentifierOwnOrGlobal(vm, k) ==
    IF vm.envs # << >> /\ hasIdentifier(vm.envs[Len(vm.envs)], k) THEN Len(vm.envs) - 1
    ELSE IF vm.envs # << >> /\ hasIdentifier(vm.envs[1], k) THEN 0
    ELSE -1

\* VM.#findIdentifier, as a 0-based index into envs, -1 when absent
findIdentifier(vm, k) ==
    IF \E i \in 1..Len(vm.envs) : hasIdentifier(vm.envs[i], k)
    THEN (CHOOSE i \in 1..Len(vm.envs) :
             /\ hasIdentifier(vm.envs[i], k)
             /\ \A j \in (i + 1)..Len(vm.envs) : ~hasIdentifier(vm.envs[j], k)) - 1
    ELSE -1

getIdentifier(vm, k) ==
    LET envIdx == findIdentifier(vm, k)
    IN IF envIdx = -1 THEN JSUndefined ELSE envGetIdentifier(vm.envs[envIdx + 1], k)

\* a variant of VM.#addIdentifier below that overwrites a binding of the top Env
addIdentifierOverwriting(vm, k, v) ==
    IF vm.envs = << >> THEN Throw(vm)
    ELSE Ok([vm EXCEPT !.envs[Len(vm.envs)] = envSetIdentifier(@, k, v)])

\* VM.#addIdentifier; throws when there is no Env left
addIdentifier(vm, k, v) ==
    IF vm.envs = << >> THEN Throw(vm)
    ELSE IF hasIdentifier(vm.envs[Len(vm.envs)], k) THEN Ok(vm)
    ELSE Ok([vm EXCEPT !.envs[Len(vm.envs)] = envSetIdentifier(@, k, v)])

\* a variant of VM.#setIdentifier below that always assigns in the top Env
setIdentifierInTop(vm, k, v) ==
    IF vm.envs = << >> THEN Throw(vm)
    ELSE Ok([vm EXCEPT !.envs[Len(vm.envs)] = envSetIdentifier(@, k, v)])

\* VM.#setIdentifier; throws when there is no Env left
setIdentifier(vm, k, v) ==
    LET found == findIdentifier(vm, k)
        envIdx == IF found = -1 THEN Len(vm.envs) - 1 ELSE found
    IN IF vm.envs = << >> THEN Throw(vm)
       ELSE Ok([vm EXCEPT !.envs[envIdx + 1] = envSetIdentifier(@, k, v)])

\* VM.#stopIntervals
stopIntervals(vm) ==
    [vm EXCEPT !.intervals = {iv \in vm.intervals :
                                 iv.id \notin {vm.updateIntervalID, vm.drawIntervalID}},
               !.updateIntervalID = -1, !.drawIntervalID = -1]

setStatus(vm, to) == [vm EXCEPT !.status = to]
stop(vm) == setStatus(stopIntervals(vm), VMStatus.STOPPED)
\* a variant of VM.pause below that rewinds the pc
pauseRewinding(vm) == [setStatus(stopIntervals(vm), VMStatus.PAUSED) EXCEPT !.fp = RawInt(0)]
pause(vm) == setStatus(stopIntervals(vm), VMStatus.PAUSED)

\* the two-operand handlers: pop b, pop a, push a.op(b)
binaryResult(op, a, b) ==
    CASE op = Opcode.EQUAL -> eq(a, b)
      [] op = Opcode.NOT_EQUAL -> neq(a, b)
      [] op = Opcode.GREATER -> gt(a, b)
      [] op = Opcode.GREATER_EQUAL -> gteq(a, b)
      [] op = Opcode.LESS -> lt(a, b)
      [] op = Opcode.LESS_EQUAL -> lteq(a, b)
      [] op = Opcode.ADD -> add(a, b)
      [] op = Opcode.SUB -> sub(a, b)
      [] op = Opcode.MUL -> mul(a, b)
      [] op = Opcode.DIV -> div(a, b)
      [] op = Opcode.MOD -> mod(a, b)
      [] op = Opcode.DOT -> dot(a, b)
      [] op = Opcode.IS -> is(a, b)
      [] OTHER -> Thrown
BinaryOpcodes == {Opcode.EQUAL, Opcode.NOT_EQUAL, Opcode.GREATER, Opcode.GREATER_EQUAL,
                  Opcode.LESS, Opcode.LESS_EQUAL, Opcode.ADD, Opcode.SUB, Opcode.MUL,
                  Opcode.DIV, Opcode.MOD, Opcode.DOT, Opcode.IS}

opBinaryOperands(op, pa, b) ==
    LET Result(v, r) == IF r = Thrown THEN Throw(v) ELSE Ok(push(v, r))
    IN Result(pa.vm, binaryResult(op, pa.value, b))
opBinary(vm, op) == opBinaryOperands(op, pop(pop(vm).vm), pop(vm).value)

\* Opcode.NEGATE and Opcode.NOT handlers
opUnary(vm, op) ==
    LET Result(v, r) == IF r = Thrown THEN Throw(v) ELSE Ok(push(v, r))
    IN Result(pop(vm).vm, IF op = Opcode.NEGATE THEN negate(pop(vm).value) ELSE not(pop(vm).value))

\* the opcode names VM.#initHandlers writes its handlers for, as
\* [Opcode.NAME]: ..., in the order of the object literal
HandlerNames ==
    << "GET_CONST", "DEF_VARIABLE", "GET_VARIABLE", "SET_VARIABLE", "TRUE", "FALSE",
       "UNDEFINED", "POP", "EQUAL", "NOT_EQUAL", "GREATER", "GREATER_EQUAL", "LESS",
       "LESS_EQUAL", "ADD", "SUB", "MUL", "DIV", "FLOOR_DIV", "MOD", "OR", "AND", "NEGATE",
       "NOT", "JUMP", "JUMP_IF_FALSE", "DUP", "CALL", "RETURN", "DOT", "IS", "IMPORT" >>

\* Opcode.NAME as the key of the handler table: the integer of a member of
\* Opcode, the host's undefined for a name Opcode does not have
handlerKey(name) == IF name \in DOMAIN Opcode THEN RawInt(Opcode[name]) ELSE JSUndefined

\* the name whose handler the table holds under key: of the handlers written
\* under one key the object literal keeps the last
handlerAt(key) ==
    HandlerNames[CHOOSE i \in 1..Len(HandlerNames) :
                     /\ handlerKey(HandlerNames[i]) = key
                     /\ \A j \in (i + 1)..Len(HandlerNames) : handlerKey(HandlerNames[j]) # key]

\* The handler stored under the key "undefined".  Opcode has no UNDEFINED,
\* FLOOR_DIV, OR or AND member, so the four handlers written for them share
\* that key and the last one, written for AND, is the one kept: it pops b and
\* a and calls a.truthy(), which no Value class defines.
opUndefinedKey(vm) == Throw(pop(pop(vm).vm).vm)

\* A handler that reads an operand is given f, what its first call of
\* VM.#next returned: the operand in f.slot and the fields after it in f.vm
\* (see handle).

\* Opcode.GET_CONST handler
opGetConst(f) == Ok(push(f.vm, constantAt(f.vm, f.slot)))

\* Opcode.DEF_VARIABLE handler
opDefVariable(f) ==
    LET Define(p) == addIdentifier(p.vm, identifierAt(f.vm, f.slot), p.value)
    IN Define(pop(f.vm))

\* Opcode.GET_VARIABLE handler
opGetVariable(f) == Ok(push(f.vm, getIdentifier(f.vm, identifierAt(f.vm, f.slot))))

\* Opcode.SET_VARIABLE handler
opSetVariable(f) ==
    LET Assign(p) == setIdentifier(p.vm, identifierAt(f.vm, f.slot), p.value)
    IN Assign(pop(f.vm))

\* this.#fp += offset, fp being the raw number #next has left; an offset
\* read past the end of the code is undefined and the sum NaN
addToFp(vm, slot) ==
    [vm EXCEPT !.fp = IF slot.def THEN RawNumber(PcPlus(NumberOfRaw(vm.fp), slot.n)) ELSE JSNaN]

\* Opcode.JUMP handler
opJump(f) == Ok(addToFp(f.vm, f.slot))

\* Opcode.JUMP_IF_FALSE handler; getValue() of the negated condition throws
\* unless the condition is a Bool
opJumpIfFalse(f) ==
    LET Branch(v, condition) ==
            IF condition = Thrown \/ condition.t = "Error" THEN Throw(v)
            ELSE IF condition.n = 1 THEN Ok(addToFp(v, f.slot))
            ELSE Ok(v)
    IN Branch(pop(f.vm).vm, not(pop(f.vm).value))

\* a variant of the loop below that fills args from its first slot, so that
\* the last-written argument comes first
RECURSIVE popArgumentsReversed(_, _, _)
popArgumentsReversed(vm, count, args) ==
    IF count <= 0 THEN [vm |-> vm, args |-> args]
    ELSE popArgumentsReversed(pop(vm).vm, count - 1, args \o << pop(vm).value >>)

\* the loop of the native branch of CALL: count values popped, first-written
\* argument first in args
RECURSIVE popArguments(_, _, _)
popArguments(vm, count, args) ==
    IF count <= 0 THEN [vm |-> vm, args |-> args]
    ELSE popArguments(pop(vm).vm, count - 1, << pop(vm).value >> \o args)

\* a variant of the host callables below whose predicates leave the flags set
callNativeKeepingFlags(vm, name, args) ==
    CASE name = "__needs_update" ->
            [vm |-> vm, value |-> BoolValue(vm.needsUpdate), thrown |-> FALSE]
      [] name = "__needs_draw" ->
            [vm |-> vm, value |-> BoolValue(vm.needsDraw), thrown |-> FALSE]
      [] OTHER -> [vm |-> vm, value |-> JSUndefined, thrown |-> TRUE]

\* the host callable of a NativeFunction applied to args: the fields after,
\* the value returned (JSUndefined when it returns nothing) and whether it threw
callNative(vm, name, args) ==
    CASE name = "__needs_update" ->
            [vm |-> [vm EXCEPT !.needsUpdate = FALSE], value |-> BoolValue(vm.needsUpdate),
             thrown |-> FALSE]
      [] name = "__needs_draw" ->
            [vm |-> [vm EXCEPT !.needsDraw = FALSE], value |-> BoolValue(vm.needsDraw),
             thrown |-> FALSE]
      [] name = "print" ->
            IF \E i \in 1..Len(args) : args[i].t = "Error"
            THEN [vm |-> vm, value |-> JSUndefined, thrown |-> TRUE]
            ELSE [vm |-> [vm EXCEPT !.console = Append(vm.console, args)],
                  value |-> JSUndefined, thrown |-> FALSE]
      [] name = "clear" -> [vm |-> vm, value |-> JSUndefined, thrown |-> FALSE]
      [] name = "fill_color" ->
            [vm |-> vm, value |-> JSUndefined,
             thrown |-> Len(args) < 1 \/ ~IsValue(args[1]) \/ args[1].t = "Error"]
      [] name = "draw_rect" ->
            [vm |-> vm, value |-> JSUndefined,
             thrown |-> Len(args) < 4 \/ \E i \in 1..4 : ~IsValue(args[i]) \/ args[i].t = "Error"]
      [] OTHER -> [vm |-> vm, value |-> JSUndefined, thrown |-> TRUE]

\* a variant of the loop below that pops and binds nothing
bindNothing(vm, args, i, localEnv) == [vm |-> vm, localEnv |-> localEnv]

\* the loop of the Function branch of CALL: one value popped per parameter name
RECURSIVE bindArguments(_, _, _, _)
bindArguments(vm, args, i, localEnv) ==
    IF i > Len(args) THEN [vm |-> vm, localEnv |-> localEnv]
    ELSE bindArguments(pop(vm).vm, args, i + 1,
                       envSetIdentifier(localEnv, RawStr(args[i]), pop(vm).value))

\* a variant of the CALL handler that drops the arguments of a call whose
\* argument count differs from the arity
opCallDroppingArguments(f1) ==
    LET Returned(native) ==
            IF native.thrown THEN Throw(native.vm)
            ELSE IF native.value # JSUndefined THEN Ok(push(native.vm, native.value))
            ELSE Ok(native.vm)
        Native(popped, fn) == Returned(callNative(popped.vm, fn.s, popped.args))
        Enter(bound, fn) == Ok(pushFrame(pushEnv(bound.vm, bound.localEnv), fn.code))
        Call(v, argCount, fn) ==
            IF ~IsValue(fn) THEN Throw(v)
            ELSE IF fn.t = "NativeFunction" THEN
                 IF argCount.def /\ argCount.n < 0 THEN Throw(v)
                 ELSE Native(IF argCount.def THEN popArguments(v, argCount.n, << >>)
                             ELSE [vm |-> v, args |-> << JSUndefined >>], fn)
            ELSE IF fn.t # "Function" THEN Throw(v)
            ELSE IF ~argCount.def THEN Ok(v)
            ELSE IF Len(fn.args) # argCount.n THEN Ok(popArguments(v, argCount.n, << >>).vm)
            ELSE Enter(bindArguments(v, fn.args, 1, NewEnv), fn)
        Name(f2) == Call(f2.vm, f1.slot, getIdentifier(f2.vm, identifierAt(f2.vm, f2.slot)))
    IN Name(vmNext(f1.vm))

\* Opcode.CALL handler
opCall(f1) ==
    LET Returned(native) ==
            IF native.thrown THEN Throw(native.vm)
            ELSE IF native.value # JSUndefined THEN Ok(push(native.vm, native.value))
            ELSE Ok(native.vm)
        Native(popped, fn) == Returned(callNative(popped.vm, fn.s, popped.args))
        Enter(bound, fn) == Ok(pushFrame(pushEnv(bound.vm, bound.localEnv), fn.code))
        Call(v, argCount, fn) ==
            IF ~IsValue(fn) THEN Throw(v)
            ELSE IF fn.t = "NativeFunction" THEN
                 IF argCount.def /\ argCount.n < 0 THEN Throw(v)
                 ELSE Native(IF argCount.def THEN popArguments(v, argCount.n, << >>)
                             ELSE [vm |-> v, args |-> << JSUndefined >>], fn)
            ELSE IF fn.t # "Function" THEN Throw(v)
            ELSE IF ~argCount.def \/ Len(fn.args) # argCount.n THEN Ok(v)
            ELSE Enter(bindArguments(v, fn.args, 1, NewEnv), fn)
        Name(f2) == Call(f2.vm, f1.slot, getIdentifier(f2.vm, identifierAt(f2.vm, f2.slot)))
    IN Name(vmNext(f1.vm))

\* Opcode.RETURN handler
opReturn(vm) ==
    LET Restore(p2, returnValue) ==
            popEnv(push([p2.vm EXCEPT !.fp = p2.value,
                                      !.frames = SubSeq(vm.frames, 1, Len(vm.frames) - 1),
                                      !.frameIdx = vm.frameIdx - 1], returnValue))
    IN IF vm.frameIdx = 0 THEN Ok(stop(vm))
       ELSE Ok(Restore(pop(pop(vm).vm), pop(vm).value))

\* Opcode.IMPORT handler
opImport(f) ==
    LET Import(v, modIdent) ==
            IF modIdent \notin DOMAIN Libraries \/ v.envs = << >> THEN Throw(v)
            ELSE Ok([v EXCEPT !.envs[Len(v.envs)] = addFromEnv(@, Libraries[modIdent])])
    IN Import(f.vm, PropertyKey(constantAt(f.vm, f.slot)))

\* the opcodes whose handlers begin by reading an operand
OperandOpcodes ==
    {Opcode.GET_CONST, Opcode.DEF_VARIABLE, Opcode.GET_VARIABLE, Opcode.SET_VARIABLE, Opcode.JUMP,
     Opcode.JUMP_IF_FALSE, Opcode.CALL, Opcode.IMPORT}

\* the handler table of VM.#initHandlers applied to a fetched opcode
handleOperand(op, f) ==
    CASE op.n = Opcode.GET_CONST -> opGetConst(f)
      [] op.n = Opcode.DEF_VARIABLE -> opDefVariable(f)
      [] op.n = Opcode.GET_VARIABLE -> opGetVariable(f)
      [] op.n = Opcode.SET_VARIABLE -> opSetVariable(f)
      [] op.n = Opcode.JUMP -> opJump(f)
      [] op.n = Opcode.JUMP_IF_FALSE -> opJumpIfFalse(f)
      [] op.n = Opcode.CALL -> opCall(f)
      [] op.n = Opcode.IMPORT -> opImport(f)
handle(vm, op) ==
    IF ~op.def THEN opUndefinedKey(vm)
    ELSE CASE op.n \in OperandOpcodes -> handleOperand(op, vmNext(vm))
           [] op.n = Opcode.TRUE -> Ok(push(vm, BoolValue(TRUE)))
           [] op.n = Opcode.FALSE -> Ok(push(vm, BoolValue(FALSE)))
           [] op.n = Opcode.POP -> Ok(pop(vm).vm)
           [] op.n \in BinaryOpcodes -> opBinary(vm, op.n)
           [] op.n \in {Opcode.NEGATE, Opcode.NOT} -> opUnary(vm, op.n)
           [] op.n = Opcode.DUP -> Ok(push(vm, peekStack(vm)))
           [] op.n = Opcode.RETURN -> opReturn(vm)
           [] OTHER -> Throw(vm)

\* VM.#step: the fields after one step; escaped when the exception of #next
\* leaves #step (it is raised outside the try block), with the fields as
\* #next left them
handleFetched(f) ==
    LET Caught(r) == [vm |-> IF r.thrown THEN stop(r.vm) ELSE r.vm, escaped |-> FALSE]
    IN IF f.escaped THEN [vm |-> f.vm, escaped |-> TRUE] ELSE Caught(handle(f.vm, f.slot))
vmStep(vm) == handleFetched(vmNext(vm))

\* the states the model follows: the guards of the actions keep the counters
\* of a run within the bounds (of the program counter, what counts up: an
\* integer)
InBounds(vm) ==
    /\ vm.frameIdx <= MaxFrames
    /\ Len(vm.stack) <= vm.frameIdx + MaxValues
    /\ Len(vm.console) <= MaxConsole
    /\ (vm.fp.t \in {"RawInt", "Number"} /\ vm.fp.s = "") => vm.fp.n <= MaxPC

\* the loop of VM.#multiStep: n calls of #step in sequence (the first half of
\* them, then the rest), cut short by an exception that leaves #step; inBounds
\* records that every state passed through stays within the bounds
RECURSIVE stepLoop(_, _)
stepLoop(r, n) ==
    IF r.escaped \/ ~r.inBounds \/ n = 0 THEN r
    ELSE IF n = 1
         THEN LET Stepped(r1) ==
                      [vm |-> r1.vm, escaped |-> r1.escaped, inBounds |-> InBounds(r1.vm)]
              IN Stepped(vmStep(r.vm))
         ELSE stepLoop(stepLoop(r, n \div 2), n - (n \div 2))

\* VM.#multiStep
multiStep(vm) ==
    stepLoop([vm |-> [vm EXCEPT !.needsUpdate = TRUE], escaped |-> FALSE,
              inBounds |-> InBounds(vm)], MultiStepCount)

\* a variant of VM.run below that does not stop a VM whose ticks are scheduled
runWithoutStop(vm) ==
    LET vm2 == setStatus(vm, VMStatus.RUNNING)
        used == {iv.id : iv \in vm2.intervals}
        updateID == CHOOSE i \in 1..(Cardinality(used) + 1) : i \notin used
        drawID == CHOOSE i \in 1..(Cardinality(used) + 2) : i \notin used \cup {updateID}
    IN [vm2 EXCEPT !.updateIntervalID = updateID, !.drawIntervalID = drawID,
                   !.intervals = @ \cup {[id |-> updateID, kind |-> "update"],
                                         [id |-> drawID, kind |-> "draw"]}]

\* VM.run
run(vm) ==
    LET vm1 == IF vm.updateIntervalID # -1 THEN stop(vm) ELSE vm
        vm2 == setStatus(vm1, VMStatus.RUNNING)
        used == {iv.id : iv \in vm2.intervals}
        updateID == CHOOSE i \in 1..(Cardinality(used) + 1) : i \notin used
        drawID == CHOOSE i \in 1..(Cardinality(used) + 2) : i \notin used \cup {updateID}
    IN [vm2 EXCEPT !.updateIntervalID = updateID, !.drawIntervalID = drawID,
                   !.intervals = @ \cup {[id |-> updateID, kind |-> "update"],
                                         [id |-> drawID, kind |-> "draw"]}]

\* a variant of VM.step below that executes two instructions
publicStepTwice(vm) ==
    LET Second(first) == IF first.escaped THEN first ELSE vmStep(first.vm)
    IN IF vm.status = VMStatus.STOPPED THEN [vm |-> vm, escaped |-> FALSE]
       ELSE Second(vmStep(IF vm.status = VMStatus.RUNNING THEN pause(vm) ELSE vm))

\* VM.step
publicStep(vm) ==
    IF vm.status = VMStatus.STOPPED THEN [vm |-> vm, escaped |-> FALSE]
    ELSE vmStep(IF vm.status = VMStatus.RUNNING THEN pause(vm) ELSE vm)

\* the fields of a VM after construction
NewVM ==
    [status |-> VMStatus.STOPPED, updateIntervalID |-> -1, drawIntervalID |-> -1,
     intervals |-> {}, frames |-> << >>, frameIdx |-> 0, fp |-> RawInt(0),
     needsUpdate |-> TRUE, needsDraw |-> TRUE, constants |-> << >>,
     envs |-> << GlobalEnv >>, stack |-> << >>, console |-> << >>]

\* a variant of VM.load below that keeps the env stack
loadKeepingEnvs(vm, source) ==
    LET Loaded(compiled) ==
            [stop(vm) EXCEPT !.frames = << compiled.opcodes >>, !.frameIdx = 0,
                             !.fp = RawInt(0), !.constants = compiled.constants]
    IN Loaded(compile(source \o KERNEL))

\* VM.load
load(vm, source) ==
    LET Loaded(compiled) ==
            [stop(vm) EXCEPT !.frames = << compiled.opcodes >>, !.frameIdx = 0,
                             !.fp = RawInt(0), !.constants = compiled.constants,
                             !.envs = << GlobalEnv >>]
    IN Loaded(compile(source \o KERNEL))

\* a 32-bit word as its two 16-bit halves
Word(high, low) == [h |-> high, l |-> low]

RECURSIVE Xor16(_, _)
\* a ^ b of two 16-bit halves
Xor16(a, b) ==
    IF a = 0 THEN b
    ELSE IF b = 0 THEN a
    ELSE 2 * Xor16(a \div 2, b \div 2) + ((a + b) % 2)

\* x ^ y of two words
WordXor(x, y) == Word(Xor16(x.h, y.h), Xor16(x.l, y.l))

\* the product of two 16-bit halves as a word
HalfProduct(a, b) ==
    LET Sum(low, high) ==
            Word(((low + (high % 256) * 256) \div 65536 + high \div 256) % 65536,
                 (low + (high % 256) * 256) % 65536)
    IN Sum(a * (b % 256), a * (b \div 256))

\* Math.imul(x, y): the low 32 bits of the product
imul(x, y) ==
    LET Low(low, cross) == Word((low.h + cross) % 65536, low.l)
    IN Low(HalfProduct(x.l, y.l), HalfProduct(x.l, y.h).l + HalfProduct(x.h, y.l).l)

\* x >>> 16 and x >>> 13
ShiftRight16(x) == Word(0, x.h)

ShiftRight13(x) == Word(x.h \div 8192, (x.h % 8192) * 8 + x.l \div 8192)

\* the constants of cyrb53: 0xdeadbeef, 0x41c6ce57, 2654435761, 1597334677,
\* 2246822507 and 3266489909
Seed1 == Word(57005, 48879)

Seed2 == Word(16838, 52823)

Mix1 == Word(40503, 31153)

Mix2 == Word(24373, 25749)

Mix3 == Word(34283, 51819)

Mix4 == Word(49842, 44597)

\* one turn of the loop of cyrb53: the character ch is mixed into the words
HashChar(h, ch) ==
    [h1 |-> imul(WordXor(h.h1, Word(0, ch)), Mix1),
     h2 |-> imul(WordXor(h.h2, Word(0, ch)), Mix2)]

RECURSIVE HashChars(_, _, _, _)
\* the loop of cyrb53 over the characters from first to last, h being the
\* words before it; the range is split in two halves
HashChars(str, first, last, h) ==
    IF h.h1.h < 0 \/ first > last THEN h
    ELSE IF first = last THEN HashChar(h, CharCode(str[first]))
    ELSE HashChars(str, (first + last) \div 2 + 1, last,
                   HashChars(str, first, (first + last) \div 2, h))

\* cyrb53(str) of the main script with seed 0.  The number it returns,
\* 4294967296 * (2097151 & h2) + (h1 >>> 0), is held as the 21 bits of h2 and
\* the two halves of h1
cyrb53(str) ==
    LET Result(h1, h2) == << (h2.h % 32) * 65536 + h2.l, h1.h, h1.l >>
        Second(h1, h2) ==
            Result(h1, WordXor(imul(WordXor(h2, ShiftRight16(h2)), Mix3),
                               imul(WordXor(h1, ShiftRight13(h1)), Mix4)))
        First(h1, h2) ==
            Second(WordXor(imul(WordXor(h1, ShiftRight16(h1)), Mix3),
                           imul(WordXor(h2, ShiftRight13(h2)), Mix4)), h2)
        Mixed(loop) == First(loop.h1, loop.h2)
    IN Mixed(HashChars(str, 1, Len(str), [h1 |-> Seed1, h2 |-> Seed2]))

\* let cachedHash = null of the main script
NullHash == << >>

(***************************************************************************)
(* Input programs                                                          *)
(***************************************************************************)
\* a function whose body leaves no value: (fun f () ()) (f) (print 1)
CallEmptyBody ==
    << "(", "f", "u", "n", " ", "f", " ", "(", ")", " ", "(", ")", ")", " ", "(", "f",
       ")", " ", "(", "p", "r", "i", "n", "t", " ", "1", ")" >>

\* a function whose body leaves one value: (fun f () (7)) (f) (print 1)
CallOneValue ==
    << "(", "f", "u", "n", " ", "f", " ", "(", ")", " ", "(", "7", ")", ")", " ", "(",
       "f", ")", " ", "(", "p", "r", "i", "n", "t", " ", "1", ")" >>

\* a function whose body leaves two values: (fun f () (3 8)) (f) (print 1)
CallTwoValues ==
    << "(", "f", "u", "n", " ", "f", " ", "(", ")", " ", "(", "3", " ", "8", ")", ")",
       " ", "(", "f", ")", " ", "(", "p", "r", "i", "n", "t", " ", "1", ")" >>

\* a call with two arguments: (fun g (a b) (a)) (g 1 2) (print 3)
CallTwoArgs ==
    << "(", "f", "u", "n", " ", "g", " ", "(", "a", " ", "b", ")", " ", "(", "a", ")",
       ")", " ", "(", "g", " ", "1", " ", "2", ")", " ", "(", "p", "r", "i", "n", "t",
       " ", "3", ")" >>

\* a call of a function that declares one name twice:
\* (fun g (a a) (a)) (g 1 2) (print 3)
CallSameName ==
    << "(", "f", "u", "n", " ", "g", " ", "(", "a", " ", "a", ")", " ", "(", "a", ")",
       ")", " ", "(", "g", " ", "1", " ", "2", ")", " ", "(", "p", "r", "i", "n", "t",
       " ", "3", ")" >>

\* unbounded recursion: (fun r () ((r))) (r)
CallDeep ==
    << "(", "f", "u", "n", " ", "r", " ", "(", ")", " ", "(", "(", "r", ")", ")", ")",
       " ", "(", "r", ")" >>

\* the pieces of the conditional programs
IfTrueHead ==
    << "(", "i", "f", " ", "t", "r", "u", "e", " " >>
IfFalseHead ==
    << "(", "i", "f", " ", "f", "a", "l", "s", "e", " " >>
PrintOneBlock ==
    << "(", "(", "p", "r", "i", "n", "t", " ", "1", ")", ")" >>
PrintTwoBlock ==
    << " ", "(", "(", "p", "r", "i", "n", "t", " ", "2", ")", ")" >>
NestedIfBlock == << "(" >> \o IfFalseHead \o PrintOneBlock \o << ")", ")" >>
ThenPrintThree ==
    << ")", " ", "(", "p", "r", "i", "n", "t", " ", "3", ")" >>
ThenPrintTrueAndThree ==
    << ")", " ", "(", "p", "r", "i", "n", "t", " ", "t", "r", "u", "e", ")", " ", "(",
       "p", "r", "i", "n", "t", " ", "3", ")" >>

\* if with else, condition true: (if true ((print 1)) ((print 2))) (print 3)
IfElseTrue == IfTrueHead \o PrintOneBlock \o PrintTwoBlock \o ThenPrintThree

\* if with else, condition false: (if false ((print 1)) ((print 2))) (print 3)
IfElseFalse == IfFalseHead \o PrintOneBlock \o PrintTwoBlock \o ThenPrintThree

\* if with else whose true block ends with an if without else:
\* (if true ((if false ((print 1)))) ((print 2))) (print 3)
IfElseNested == IfTrueHead \o NestedIfBlock \o PrintTwoBlock \o ThenPrintThree

\* if without else, condition false: (if false ((print 1))) (print true) (print 3)
IfFalse == IfFalseHead \o PrintOneBlock \o ThenPrintTrueAndThree

\* the pieces of the loop programs
LetIZero ==
    << "(", "l", "e", "t", " ", "i", " ", "0", ")", " " >>
WhileILessThree ==
    << "(", "w", "h", "i", "l", "e", " ", "(", "<", " ", "i", " ", "3", ")", " " >>
PrintAndIncrementBlock ==
    << "(", "(", "p", "r", "i", "n", "t", " ", "i", ")", " ", "(", "+", "=", " ", "i",
       " ", "1", ")", ")" >>
WhileFalse ==
    << "(", "w", "h", "i", "l", "e", " ", "f", "a", "l", "s", "e", " " >>
ThenPrintTwo ==
    << ")", " ", "(", "p", "r", "i", "n", "t", " ", "2", ")" >>

\* the counting loop: (let i 0) (while (< i 3) ((print i) (+= i 1)))
WhileThree == LetIZero \o WhileILessThree \o PrintAndIncrementBlock \o << ")" >>

\* a while that starts the code array: (while false ((print 1))) (print 2)
WhileFirst == WhileFalse \o PrintOneBlock \o ThenPrintTwo

\* a call of an undefined name, then a definition: (x) (let y 1)
ThrowFirst ==
    << "(", "x", ")", " ", "(", "l", "e", "t", " ", "y", " ", "1", ")" >>

\* a game: imports game, defines update and draw: (import game) (fun update () (1)) (fun draw () (2))
Game ==
    << "(", "i", "m", "p", "o", "r", "t", " ", "g", "a", "m", "e", ")", " ", "(", "f",
       "u", "n", " ", "u", "p", "d", "a", "t", "e", " ", "(", ")", " ", "(", "1", ")",
       ")", " ", "(", "f", "u", "n", " ", "d", "r", "a", "w", " ", "(", ")", " ", "(",
       "2", ")", ")" >>

\* an if without else that ends a function body: (fun f () ((if false ((print 1))))) (f)
IfLastInFun ==
    << "(", "f", "u", "n", " ", "f", " ", "(", ")", " ", "(", "(", "i", "f", " ", "f",
       "a", "l", "s", "e", " ", "(", "(", "p", "r", "i", "n", "t", " ", "1", ")", ")",
       ")", ")", ")", " ", "(", "f", ")" >>

\* a definition, a second definition of the same name, and a definition of
\* that name inside a function:
\* (let x 1) (let x 2) (fun f () ((let x 3))) (f)
Define ==
    << "(", "l", "e", "t", " ", "x", " ", "1", ")", " ", "(", "l", "e", "t", " ", "x",
       " ", "2", ")", " ", "(", "f", "u", "n", " ", "f", " ", "(", ")", " ", "(", "(",
       "l", "e", "t", " ", "x", " ", "3", ")", ")", ")", " ", "(", "f", ")" >>

\* assignments inside a function: to its parameter, which the global env binds
\* as well, to a global name, and to a name bound nowhere:
\* (let x 1) (fun f (x) ((= x 3) (= f 4) (= y 5))) (f 2)
Assign ==
    << "(", "l", "e", "t", " ", "x", " ", "1", ")", " ", "(", "f", "u", "n", " ", "f",
       " ", "(", "x", ")", " ", "(", "(", "=", " ", "x", " ", "3", ")", " ", "(", "=",
       " ", "f", " ", "4", ")", " ", "(", "=", " ", "y", " ", "5", ")", ")", ")", " ",
       "(", "f", " ", "2", ")" >>

\* reads inside a function: of its parameter, which the global env binds as
\* well, and of a name bound nowhere:
\* (let x 1) (fun f (x) ((print x) (print q))) (f 2)
Lookup ==
    << "(", "l", "e", "t", " ", "x", " ", "1", ")", " ", "(", "f", "u", "n", " ", "f",
       " ", "(", "x", ")", " ", "(", "(", "p", "r", "i", "n", "t", " ", "x", ")", " ",
       "(", "p", "r", "i", "n", "t", " ", "q", ")", ")", ")", " ", "(", "f", " ", "2",
       ")" >>

\* an if whose condition is an Error, the negation of a Bool:
\* (if (- true) ((print 1))) (print 2)
ErrorCondition ==
    << "(", "i", "f", " ", "(", "-", " ", "t", "r", "u", "e", ")", " ", "(", "(", "p",
       "r", "i", "n", "t", " ", "1", ")", ")", ")", " ", "(", "p", "r", "i", "n", "t",
       " ", "2", ")" >>

\* a variable defined from a call that returns nothing: (let x (print 1)) (print x)
LetOfPrint ==
    << "(", "l", "e", "t", " ", "x", " ", "(", "p", "r", "i", "n", "t", " ", "1", ")",
       ")", " ", "(", "p", "r", "i", "n", "t", " ", "x", ")" >>

\* a variable assigned from a call that returns nothing: (let x 1) (= x (print 2))
AssignOfPrint ==
    << "(", "l", "e", "t", " ", "x", " ", "1", ")", " ", "(", "=", " ", "x", " ", "(",
       "p", "r", "i", "n", "t", " ", "2", ")", ")" >>

\* a NativeFunction called with two arguments: (print 1 2)
PrintTwo ==
    << "(", "p", "r", "i", "n", "t", " ", "1", " ", "2", ")" >>

\* a NativeFunction of arity 0 called with one argument: (import game) (clear 1)
ClearOne ==
    << "(", "i", "m", "p", "o", "r", "t", " ", "g", "a", "m", "e", ")", " ", "(", "c",
       "l", "e", "a", "r", " ", "1", ")" >>

\* a Type called with a value of another variant: (string 5)
CastString ==
    << "(", "s", "t", "r", "i", "n", "g", " ", "5", ")" >>

\* a Type called with a value of its own variant: (number 7)
CastNumber ==
    << "(", "n", "u", "m", "b", "e", "r", " ", "7", ")" >>

\* the programs above, which call built-in names
CallPrograms == {LetOfPrint, AssignOfPrint, PrintTwo, ClearOne, CastString, CastNumber}

\* a function defined inside a function: (fun f (a) ((fun g () ((print a))) (g))) (f 1)
FunInFun ==
    << "(", "f", "u", "n", " ", "f", " ", "(", "a", ")", " ", "(", "(", "f", "u", "n",
       " ", "g", " ", "(", ")", " ", "(", "(", "p", "r", "i", "n", "t", " ", "a", ")",
       ")", ")", " ", "(", "g", ")", ")", ")", " ", "(", "f", " ", "1", ")" >>

\* the texts an editor holds while FunInFun is typed: its prefixes, which break
\* off at every place of a form
PrefixPrograms == [n \in 1..Len(FunInFun) |-> SubSeq(FunInFun, 1, n)]

\* calls with too many and with too few arguments: (fun f (a) ((print a))) (f 1 2) (f)
ArityMismatch ==
    << "(", "f", "u", "n", " ", "f", " ", "(", "a", ")", " ", "(", "(", "p", "r", "i", "n",
       "t", " ", "a", ")", ")", ")", " ", "(", "f", " ", "1", " ", "2", ")", " ", "(", "f",
       ")" >>

\* a form (fun NAME (P*) (BODY)) inside a program: the text before it, its name,
\* its parameters, the forms of its body, and the text after it
FunForm(pre, name, params, body, post) ==
    [pre |-> pre, name |-> name, params |-> params, body |-> body, post |-> post]

\* a function whose body holds jumps, defined after another form:
\* (let x 1) (fun f (a) ((if a ((print 1)) ((print 2))) (while false ((print a))))) (f true)
JumpsInFun ==
    FunForm(<< "(", "l", "e", "t", " ", "x", " ", "1", ")", " " >>,
            << "f" >>,
            << "a" >>,
            << "(", "i", "f", " ", "a", " ", "(", "(", "p", "r", "i", "n", "t", " ", "1",
                  ")", ")", " ", "(", "(", "p", "r", "i", "n", "t", " ", "2", ")", ")", ")",
                  " ", "(", "w", "h", "i", "l", "e", " ", "f", "a", "l", "s", "e", " ", "(",
                  "(", "p", "r", "i", "n", "t", " ", "a", ")", ")", ")" >>,
            << " ", "(", "f", " ", "t", "r", "u", "e", ")" >>)

\* a function defined inside the block of an if:
\* (if true ((fun h () ((print 1))) (h)))
FunInBlock ==
    FunForm(<< "(", "i", "f", " ", "t", "r", "u", "e", " ", "(" >>,
            << "h" >>,
            << >>,
            << "(", "p", "r", "i", "n", "t", " ", "1", ")" >>,
            << " ", "(", "h", ")", ")", ")" >>)

\* a function whose body defines another function:
\* (fun o (a) ((fun n () ((print a))) (n))) (o 1)
OuterFun ==
    FunForm(<< >>,
            << "o" >>,
            << "a" >>,
            << "(", "f", "u", "n", " ", "n", " ", "(", ")", " ", "(", "(", "p", "r", "i",
                  "n", "t", " ", "a", ")", ")", ")", " ", "(", "n", ")" >>,
            << " ", "(", "o", " ", "1", ")" >>)

\* the function defined inside the body of o:
\* (fun o (a) ((fun n () ((print a))) (n))) (o 1)
InnerFun ==
    FunForm(<< "(", "f", "u", "n", " ", "o", " ", "(", "a", ")", " ", "(" >>,
            << "n" >>,
            << >>,
            << "(", "p", "r", "i", "n", "t", " ", "a", ")" >>,
            << " ", "(", "n", ")", ")", ")", " ", "(", "o", " ", "1", ")" >>)

\* a function with an empty body, the first form of the program:
\* (fun e () ()) (e)
EmptyFun ==
    FunForm(<< >>,
            << "e" >>,
            << >>,
            << >>,
            << " ", "(", "e", ")" >>)

FunForms == << JumpsInFun, FunInBlock, OuterFun, InnerFun, EmptyFun >>

\* the text of the program that holds the form
FunText(f) ==
    f.pre \o << "(", "f", "u", "n", " " >> \o f.name \o << " ", "(" >> \o f.params
          \o << ")", " ", "(" >> \o f.body \o << ")", ")" >> \o f.post

\* the text of the program with (let NAME 9) in the place of the form
LetText(f) ==
    f.pre \o << "(", "l", "e", "t", " " >> \o f.name \o << " ", "9", ")" >> \o f.post

\* an import inside a function, of a module that binds the name of its parameter:
\* (let clear 5) (fun f (clear) ((import game) (clear))) (f 1)
ImportInFun ==
    << "(", "l", "e", "t", " ", "c", "l", "e", "a", "r", " ", "5", ")", " ", "(", "f", "u",
       "n", " ", "f", " ", "(", "c", "l", "e", "a", "r", ")", " ", "(", "(", "i", "m", "p",
       "o", "r", "t", " ", "g", "a", "m", "e", ")", " ", "(", "c", "l", "e", "a", "r", ")",
       ")", ")", " ", "(", "f", " ", "1", ")" >>

\* a second import after a name of the module was assigned:
\* (import game) (= clear 5) (import game) (clear)
ImportTwice ==
    << "(", "i", "m", "p", "o", "r", "t", " ", "g", "a", "m", "e", ")", " ", "(", "=", " ",
       "c", "l", "e", "a", "r", " ", "5", ")", " ", "(", "i", "m", "p", "o", "r", "t", " ",
       "g", "a", "m", "e", ")", " ", "(", "c", "l", "e", "a", "r", ")" >>

\* a function that assigns and reads a name its caller has as a parameter:
\* (fun g () ((= a 2) a)) (fun f (a) ((g))) (f 1)
CallerName ==
    << "(", "f", "u", "n", " ", "g", " ", "(", ")", " ", "(", "(", "=", " ", "a", " ", "2",
       ")", " ", "a", ")", ")", " ", "(", "f", "u", "n", " ", "f", " ", "(", "a", ")", " ",
       "(", "(", "g", ")", ")", ")", " ", "(", "f", " ", "1", ")" >>

\* a let inside a function, and a read of its name after the call:
\* (fun f () ((let y 1) y)) (f) (print y)
LetInFun ==
    << "(", "f", "u", "n", " ", "f", " ", "(", ")", " ", "(", "(", "l", "e", "t", " ", "y",
       " ", "1", ")", " ", "y", ")", ")", " ", "(", "f", ")", " ", "(", "p", "r", "i", "n",
       "t", " ", "y", ")" >>

\* a loop whose body is a call of a function that returns a value:
\* (fun f () (7)) (while true ((f)))
LoopCallingFun ==
    << "(", "f", "u", "n", " ", "f", " ", "(", ")", " ", "(", "7", ")", ")", " ", "(", "w",
       "h", "i", "l", "e", " ", "t", "r", "u", "e", " ", "(", "(", "f", ")", ")", ")" >>

\* the programs that define functions and call them
FunctionPrograms == << ArityMismatch, FunText(JumpsInFun), FunText(FunInBlock),
                       FunText(OuterFun), FunText(EmptyFun), ImportInFun, ImportTwice,
                       CallerName, LetInFun, LoopCallingFun >>

\* the characters lexemes are made of: two letters (which spell the keyword
\* `if`), the underscore and a digit
LexemeChars == << "i", "f", "_", "7" >>
MaxLexeme == 3

\* the k-th sequence of n characters, k counted from 0
LexemeAt(n, k) ==
    [i \in 1..n |-> LexemeChars[((k \div Power(Len(LexemeChars), n - i)) % Len(LexemeChars)) + 1]]

\* every sequence of n characters, in the order of LexemeAt
LexemesOfLength(n) == [k \in 1..Power(Len(LexemeChars), n) |-> LexemeAt(n, k - 1)]

RECURSIVE LexemesUpTo(_)
LexemesUpTo(n) == IF n = 0 THEN << >> ELSE LexemesUpTo(n - 1) \o LexemesOfLength(n)

\* the name the kernel calls, and a name in capitals
NeedsUpdateName == << "_", "_", "n", "e", "e", "d", "s", "_", "u", "p", "d", "a", "t", "e" >>
CapitalName == << "Z", "f" >>

\* a lexeme starts with a letter or `_` and goes on with letters, digits or `_`
isLexeme(chars) ==
    /\ chars # << >>
    /\ chars[1] = "_" \/ isAlpha(chars[1])
    /\ \A i \in 1..Len(chars) : isIdentifier(chars[i])
Lexemes == SelectSeq(LexemesUpTo(MaxLexeme), isLexeme) \o << NeedsUpdateName, CapitalName >>

\* the text of the game pong of the list of examples
Pong == <<
    "#", " ", "P", "O", "N", "G", "\n",
    "#", " ", "b", "y", " ", "P", "e", "d", "r", "o", " ", "B", ".", "\n",
    "#", "\n",
    "#", " ", "H", "O", "W", " ", "T", "O", " ", "P", "L", "A", "Y", ":", "\n",
    "#", " ", " ", " ", "1", ".", " ", "C", "o", "n", "t", "r", "o", "l", " ", "y", "o", "u",
      "r", " ", "p", "a", "d", "d", "l", "e", " ", "w", "i", "t", "h", " ", "W", " ", "a", "n",
      "d", " ", "S", "\n",
    "#", " ", " ", " ", "2", ".", " ", "H", "i", "t", " ", "b", "a", "l", "l", " ", "i", "n",
      "t", "o", " ", "o", "p", "p", "o", "n", "e", "n", "t", "s", " ", "s", "i", "d", "e", " ",
      "t", "o", " ", "r", "e", "c", "e", "i", "v", "e", " ", "p", "o", "i", "n", "t", "s",
      "\n",
    "#", " ", " ", " ", "3", ".", " ", "F", "i", "r", "s", "t", " ", "t", "o", " ", "5", " ",
      "w", "i", "n", "s", "\n",
    "#", "\n",
    "#", " ", "H", "A", "C", "K", " ", "M", "E", "!", "\n",
    "#", " ", " ", " ", "1", ".", " ", "I", "s", " ", "t", "h", "e", " ", "b", "a", "l", "l",
      " ", "t", "o", "o", " ", "f", "a", "s", "t", "?", " ", "C", "h", "a", "n", "g", "e", " ",
      "t", "h", "e", " ", "S", "P", "E", "E", "D", "!", "\n",
    "#", " ", " ", " ", "2", ".", " ", "I", "s", " ", "t", "h", "e", " ", "e", "n", "e", "m",
      "y", " ", "t", "o", "o", " ", "d", "u", "m", "b", "?", " ", "T", "w", "e", "a", "k", " ",
      "i", "t", "s", " ", "l", "o", "g", "i", "c", "!", "\n",
    "#", " ", " ", " ", "3", ".", " ", "I", "s", " ", "5", " ", "p", "o", "i", "n", "t", "s",
      " ", "t", "o", "o", " ", "l", "i", "t", "t", "l", "e", "?", " ", "M", "a", "k", "e", " ",
      "i", "t", " ", "1", "0", "0", "0", "!", "\n",
    "\n",
    "(", "i", "m", "p", "o", "r", "t", " ", "g", "a", "m", "e", ")", "\n",
    "\n",
    "(", "l", "e", "t", " ", "S", "P", "E", "E", "D", " ", "2", ")", "\n",
    "(", "l", "e", "t", " ", "P", "O", "I", "N", "T", "S", "_", "T", "O", "_", "W", "I", "N",
      " ", "5", ")", "\n",
    "\n",
    "(", "l", "e", "t", " ", "x", "_", "b", "a", "l", "l", " ", "3", "2", "0", ")", "\n",
    "(", "l", "e", "t", " ", "x", "_", "b", "a", "l", "l", "_", "s", "p", "e", "e", "d", " ",
      "(", "-", " ", "S", "P", "E", "E", "D", ")", ")", "\n",
    "\n",
    "(", "l", "e", "t", " ", "y", "_", "b", "a", "l", "l", " ", "2", "4", "0", ")", "\n",
    "(", "l", "e", "t", " ", "y", "_", "b", "a", "l", "l", "_", "s", "p", "e", "e", "d", " ",
      "S", "P", "E", "E", "D", ")", "\n",
    "\n",
    "(", "l", "e", "t", " ", "y", "_", "e", "n", "e", "m", "y", " ", "2", "0", "0", ")", "\n",
    "(", "l", "e", "t", " ", "y", "_", "p", "l", "a", "y", "e", "r", " ", "2", "0", "0", ")",
      "\n",
    "\n",
    "(", "l", "e", "t", " ", "p", "o", "i", "n", "t", "s", "_", "p", "l", "a", "y", "e", "r",
      " ", "0", ")", "\n",
    "(", "l", "e", "t", " ", "p", "o", "i", "n", "t", "s", "_", "e", "n", "e", "m", "y", " ",
      "0", ")", "\n",
    "\n",
    "(", "l", "e", "t", " ", "c", "o", "o", "l", "d", "o", "w", "n", " ", "1", "6", "0", ")",
      "\n",
    "(", "l", "e", "t", " ", "d", "o", "n", "e", " ", "f", "a", "l", "s", "e", ")", "\n",
    "(", "l", "e", "t", " ", "w", "i", "n", "_", "s", "t", "r", " ", "\"", "\"", ")", "\n",
    "\n",
    "(", "s", "e", "t", "_", "f", "o", "n", "t", "_", "s", "i", "z", "e", " ", "3", "2", ")",
      "\n",
    "\n",
    "(", "f", "u", "n", " ", "u", "p", "d", "a", "t", "e", " ", "(", ")", " ", "(", "\n",
    " ", " ", "#", " ", "G", "a", "m", "e", " ", "o", "v", "e", "r", "?", "\n",
    " ", " ", "(", "i", "f", " ", "d", "o", "n", "e", " ", "(", "\n",
    " ", " ", " ", " ", "(", "r", "e", "t", "u", "r", "n", ")", "\n",
    " ", " ", ")", ")", "\n",
    "\n",
    " ", " ", "#", " ", "P", "l", "a", "y", "e", "r", " ", "m", "o", "v", "e", "m", "e", "n",
      "t", "\n",
    " ", " ", "(", "i", "f", " ", "(", "a", "n", "d", " ", "(", ">", " ", "y", "_", "p", "l",
      "a", "y", "e", "r", " ", "0", ")", " ", "(", "i", "s", "_", "k", "e", "y", "_", "p", "r",
      "e", "s", "s", "e", "d", " ", "\"", "K", "e", "y", "W", "\"", ")", ")", " ", "(", "\n",
    " ", " ", " ", " ", "(", "-", "=", " ", "y", "_", "p", "l", "a", "y", "e", "r", " ", "1",
      ")", "\n",
    " ", " ", ")", ")", "\n",
    " ", " ", "(", "i", "f", " ", "(", "a", "n", "d", " ", "(", "<", " ", "y", "_", "p", "l",
      "a", "y", "e", "r", " ", "4", "1", "6", ")", " ", "(", "i", "s", "_", "k", "e", "y", "_",
      "p", "r", "e", "s", "s", "e", "d", " ", "\"", "K", "e", "y", "S", "\"", ")", ")", " ",
      "(", "\n",
    " ", " ", " ", " ", "(", "+", "=", " ", "y", "_", "p", "l", "a", "y", "e", "r", " ", "1",
      ")", "\n",
    " ", " ", ")", ")", "\n",
    "\n",
    " ", " ", "#", " ", "E", "n", "e", "m", "y", " ", "m", "o", "v", "e", "m", "e", "n", "t",
      "\n",
    " ", " ", "(", "i", "f", " ", "(", "a", "n", "d", " ", "(", "=", "=", " ", "y", "_", "b",
      "a", "l", "l", "_", "s", "p", "e", "e", "d", " ", "S", "P", "E", "E", "D", ")", " ", "(",
      ">", " ", "x", "_", "b", "a", "l", "l", " ", "4", "0", "0", ")", ")", " ", "(", "\n",
    " ", " ", " ", " ", "(", "i", "f", " ", "(", "a", "n", "d", " ", "(", "<", " ", "y", "_",
      "e", "n", "e", "m", "y", " ", "4", "1", "6", ")", " ", "(", ">", " ", "y", "_", "b", "a",
      "l", "l", " ", "y", "_", "e", "n", "e", "m", "y", ")", ")", " ", "(", "\n",
    " ", " ", " ", " ", " ", " ", "(", "+", "=", " ", "y", "_", "e", "n", "e", "m", "y", " ",
      "1", ")", "\n",
    " ", " ", " ", " ", ")", " ", "(", "\n",
    " ", " ", " ", " ", " ", " ", "(", "i", "f", " ", "(", "a", "n", "d", " ", "(", ">", " ",
      "y", "_", "e", "n", "e", "m", "y", " ", "0", ")", " ", "(", "<", " ", "y", "_", "b", "a",
      "l", "l", " ", "(", "+", " ", "y", "_", "e", "n", "e", "m", "y", " ", "6", "4", ")", ")",
      ")", " ", "(", "\n",
    " ", " ", " ", " ", " ", " ", " ", " ", "(", "-", "=", " ", "y", "_", "e", "n", "e", "m",
      "y", " ", "1", ")", "\n",
    " ", " ", " ", " ", " ", " ", ")", ")", "\n",
    " ", " ", " ", " ", ")", ")", "\n",
    " ", " ", ")", ")", "\n",
    "\n",
    " ", " ", "#", " ", "I", "n", " ", "c", "o", "o", "l", "d", "o", "w", "n", "?", "\n",
    " ", " ", "(", "i", "f", " ", "(", ">", " ", "c", "o", "o", "l", "d", "o", "w", "n", " ",
      "0", ")", " ", "(", "\n",
    " ", " ", " ", " ", "(", "-", "=", " ", "c", "o", "o", "l", "d", "o", "w", "n", " ", "1",
      ")", "\n",
    " ", " ", " ", " ", "(", "r", "e", "t", "u", "r", "n", ")", "\n",
    " ", " ", ")", ")", "\n",
    "\n",
    " ", " ", "#", " ", "L", "i", "m", "i", "t", " ", "b", "a", "l", "l", " ", "v", "e", "r",
      "t", "i", "c", "a", "l", "l", "y", "\n",
    " ", " ", "(", "i", "f", " ", "(", "o", "r", " ", "(", ">", " ", "y", "_", "b", "a", "l",
      "l", " ", "4", "6", "8", ")", " ", "(", "<", " ", "y", "_", "b", "a", "l", "l", " ", "0",
      ")", ")", " ", "(", "\n",
    " ", " ", " ", " ", "(", "=", " ", "y", "_", "b", "a", "l", "l", "_", "s", "p", "e", "e",
      "d", " ", "(", "-", " ", "y", "_", "b", "a", "l", "l", "_", "s", "p", "e", "e", "d", ")",
      ")", "\n",
    " ", " ", ")", ")", "\n",
    "\n",
    " ", " ", "#", " ", "B", "a", "l", "l", " ", "s", "c", "o", "r", "e", "d", " ", "o", "n",
      " ", "p", "l", "a", "y", "e", "r", "?", "\n",
    " ", " ", "(", "i", "f", " ", "(", "<", " ", "x", "_", "b", "a", "l", "l", " ", "0", ")",
      " ", "(", "\n",
    " ", " ", " ", " ", "(", "=", " ", "c", "o", "o", "l", "d", "o", "w", "n", " ", "1", "6",
      "0", ")", "\n",
    " ", " ", " ", " ", "(", "+", "=", " ", "p", "o", "i", "n", "t", "s", "_", "e", "n", "e",
      "m", "y", " ", "1", ")", "\n",
    " ", " ", " ", " ", "(", "i", "f", " ", "(", ">", "=", " ", "p", "o", "i", "n", "t", "s",
      "_", "e", "n", "e", "m", "y", " ", "P", "O", "I", "N", "T", "S", "_", "T", "O", "_", "W",
      "I", "N", ")", " ", "(", "\n",
    " ", " ", " ", " ", " ", " ", "(", "=", " ", "d", "o", "n", "e", " ", "t", "r", "u", "e",
      ")", "\n",
    " ", " ", " ", " ", " ", " ", "(", "=", " ", "w", "i", "n", "_", "s", "t", "r", " ", "\"",
      "c", "o", "m", "p", "u", "t", "e", "r", " ", "w", "o", "n", "!", "\"", ")", "\n",
    " ", " ", " ", " ", ")", ")", "\n",
    "\n",
    " ", " ", " ", " ", "(", "=", " ", "x", "_", "b", "a", "l", "l", " ", "3", "2", "0", ")",
      "\n",
    " ", " ", " ", " ", "(", "=", " ", "y", "_", "b", "a", "l", "l", " ", "2", "4", "0", ")",
      "\n",
    " ", " ", " ", " ", "(", "=", " ", "x", "_", "b", "a", "l", "l", "_", "s", "p", "e", "e",
      "d", " ", "S", "P", "E", "E", "D", ")", "\n",
    " ", " ", " ", " ", "(", "r", "e", "t", "u", "r", "n", ")", "\n",
    " ", " ", ")", ")", "\n",
    "\n",
    " ", " ", "#", " ", "B", "a", "l", "l", " ", "s", "c", "o", "r", "e", "d", " ", "o", "n",
      " ", "o", "p", "p", "o", "n", "e", "n", "t", "?", "\n",
    " ", " ", "(", "i", "f", " ", "(", ">", " ", "x", "_", "b", "a", "l", "l", " ", "6", "2",
      "8", ")", " ", "(", "\n",
    " ", " ", " ", " ", "(", "=", " ", "c", "o", "o", "l", "d", "o", "w", "n", " ", "1", "6",
      "0", ")", "\n",
    " ", " ", " ", " ", "(", "+", "=", " ", "p", "o", "i", "n", "t", "s", "_", "p", "l", "a",
      "y", "e", "r", " ", "1", ")", "\n",
    " ", " ", " ", " ", "(", "i", "f", " ", "(", ">", "=", " ", "p", "o", "i", "n", "t", "s",
      "_", "p", "l", "a", "y", "e", "r", " ", "P", "O", "I", "N", "T", "S", "_", "T", "O", "_",
      "W", "I", "N", ")", " ", "(", "\n",
    " ", " ", " ", " ", " ", " ", "(", "=", " ", "d", "o", "n", "e", " ", "t", "r", "u", "e",
      ")", "\n",
    " ", " ", " ", " ", " ", " ", "(", "=", " ", "w", "i", "n", "_", "s", "t", "r", " ", "\"",
      "p", "l", "a", "y", "e", "r", " ", "w", "o", "n", "!", "\"", ")", "\n",
    " ", " ", " ", " ", ")", ")", "\n",
    "\n",
    " ", " ", " ", " ", "(", "=", " ", "x", "_", "b", "a", "l", "l", " ", "3", "2", "0", ")",
      "\n",
    " ", " ", " ", " ", "(", "=", " ", "y", "_", "b", "a", "l", "l", " ", "2", "4", "0", ")",
      "\n",
    " ", " ", " ", " ", "(", "=", " ", "x", "_", "b", "a", "l", "l", "_", "s", "p", "e", "e",
      "d", " ", "(", "-", " ", "S", "P", "E", "E", "D", ")", ")", "\n",
    " ", " ", " ", " ", "(", "r", "e", "t", "u", "r", "n", ")", "\n",
    " ", " ", ")", ")", "\n",
    "\n",
    " ", " ", "#", " ", "P", "l", "a", "y", "e", "r", " ", "p", "a", "d", "d", "l", "e", " ",
      "h", "i", "t", " ", "b", "a", "l", "l", "?", "\n",
    " ", " ", "(", "i", "f", " ", "(", "a", "n", "d", " ", "(", ">", " ", "x", "_", "b", "a",
      "l", "l", " ", "2", "8", ")", " ", "(", "a", "n", "d", " ", "(", "<", " ", "x", "_", "b",
      "a", "l", "l", " ", "4", "8", ")", " ", "(", "a", "n", "d", " ", "(", ">", "=", " ", "y",
      "_", "b", "a", "l", "l", " ", "y", "_", "p", "l", "a", "y", "e", "r", ")", " ", "(", "<",
      "=", " ", "y", "_", "b", "a", "l", "l", " ", "(", "+", " ", "y", "_", "p", "l", "a", "y",
      "e", "r", " ", "6", "4", ")", ")", ")", ")", ")", " ", "(", "\n",
    " ", " ", " ", " ", "(", "=", " ", "x", "_", "b", "a", "l", "l", "_", "s", "p", "e", "e",
      "d", " ", "S", "P", "E", "E", "D", ")", "\n",
    " ", " ", ")", ")", "\n",
    "\n",
    " ", " ", "#", " ", "O", "p", "p", "o", "n", "e", "n", "t", " ", "p", "a", "d", "d", "l",
      "e", " ", "h", "i", "t", " ", "b", "a", "l", "l", "?", "\n",
    " ", " ", "(", "i", "f", " ", "(", "a", "n", "d", " ", "(", "<", " ", "x", "_", "b", "a",
      "l", "l", " ", "6", "0", "8", ")", " ", "(", "a", "n", "d", " ", "(", ">", " ", "x", "_",
      "b", "a", "l", "l", " ", "5", "8", "0", ")", " ", "(", "a", "n", "d", " ", "(", ">", "=",
      " ", "y", "_", "b", "a", "l", "l", " ", "y", "_", "e", "n", "e", "m", "y", ")", " ", "(",
      "<", "=", " ", "y", "_", "b", "a", "l", "l", " ", "(", "+", " ", "y", "_", "e", "n", "e",
      "m", "y", " ", "6", "4", ")", ")", ")", ")", ")", " ", "(", "\n",
    " ", " ", " ", " ", "(", "=", " ", "x", "_", "b", "a", "l", "l", "_", "s", "p", "e", "e",
      "d", " ", "(", "-", " ", "S", "P", "E", "E", "D", ")", ")", "\n",
    " ", " ", ")", ")", "\n",
    "\n",
    " ", " ", "(", "+", "=", " ", "x", "_", "b", "a", "l", "l", " ", "x", "_", "b", "a", "l",
      "l", "_", "s", "p", "e", "e", "d", ")", "\n",
    " ", " ", "(", "+", "=", " ", "y", "_", "b", "a", "l", "l", " ", "y", "_", "b", "a", "l",
      "l", "_", "s", "p", "e", "e", "d", ")", "\n",
    ")", ")", "\n",
    "\n",
    "(", "f", "u", "n", " ", "d", "r", "a", "w", " ", "(", ")", " ", "(", "\n",
    " ", " ", "(", "d", "r", "a", "w", "_", "r", "e", "c", "t", " ", "x", "_", "b", "a", "l",
      "l", " ", "y", "_", "b", "a", "l", "l", " ", "1", "2", " ", "1", "2", ")", "\n",
    " ", " ", "(", "d", "r", "a", "w", "_", "r", "e", "c", "t", " ", "3", "2", " ", "y", "_",
      "p", "l", "a", "y", "e", "r", " ", "1", "6", " ", "6", "4", ")", "\n",
    " ", " ", "(", "d", "r", "a", "w", "_", "r", "e", "c", "t", " ", "5", "9", "2", " ", "y",
      "_", "e", "n", "e", "m", "y", " ", "1", "6", " ", "6", "4", ")", "\n",
    " ", " ", "(", "i", "f", " ", "d", "o", "n", "e", " ", "(", "\n",
    " ", " ", " ", " ", "(", "d", "r", "a", "w", "_", "t", "e", "x", "t", " ", "2", "4", "0",
      " ", "1", "2", "8", " ", "w", "i", "n", "_", "s", "t", "r", ")", "\n",
    " ", " ", ")", " ", "(", "\n",
    " ", " ", " ", " ", "(", "d", "r", "a", "w", "_", "t", "e", "x", "t", " ", "2", "7", "2",
      " ", "6", "4", " ", "p", "o", "i", "n", "t", "s", "_", "p", "l", "a", "y", "e", "r", ")",
      "\n",
    " ", " ", " ", " ", "(", "d", "r", "a", "w", "_", "t", "e", "x", "t", " ", "3", "3", "6",
      " ", "6", "4", " ", "p", "o", "i", "n", "t", "s", "_", "e", "n", "e", "m", "y", ")",
      "\n",
    " ", " ", ")", ")", "\n",
    ")", ")" >>

\* BUILTIN_GAMES: the texts of the examples by name
BUILTIN_GAMES == [gameName \in {"pong"} |-> Pong]

\* the texts that call a name without arguments: `(name)`
LexemePrograms == [n \in 1..Len(Lexemes) |-> << "(" >> \o Lexemes[n] \o << ")" >>]

Programs == << CallEmptyBody, CallOneValue, CallTwoValues, CallTwoArgs, CallSameName,
              CallDeep, IfElseTrue, IfElseFalse, IfElseNested, IfFalse, WhileThree,
              WhileFirst, ThrowFirst, Game, IfLastInFun, Define, Assign, Lookup,
              ErrorCondition, LetOfPrint, AssignOfPrint, PrintTwo, ClearOne, CastString,
              CastNumber, Pong >>
                \o PrefixPrograms \o LexemePrograms \o FunctionPrograms

\* cyrb53 of the trimmed texts of Programs, each computed once
TextHashes == [source \in {Trim(Programs[i]) : i \in 1..Len(Programs)} |-> cyrb53(source)]

\* cyrb53(source), read from the table when source is a text of Programs
hashOf(source) == IF source \in DOMAIN TextHashes THEN TextHashes[source] ELSE cyrb53(source)

\* loadIfNeeded of the main script, text being the editor's text and cached
\* the cached hash: nothing is done when the VM is not stopped and the hash of
\* the trimmed text is the cached one; else the trimmed text is loaded and its
\* hash cached
loadUnlessCached(vm, source, cached, hashed) ==
    IF vm.status # VMStatus.STOPPED /\ cached # NullHash /\ hashed = cached
    THEN [vm |-> vm, cachedHash |-> cached]
    ELSE [vm |-> load(vm, source), cachedHash |-> hashed]
loadTrimmed(vm, source, cached) == loadUnlessCached(vm, source, cached, hashOf(source))
loadIfNeeded(vm, text, cached) == loadTrimmed(vm, Trim(text), cached)

(***************************************************************************)
(* The machine: the fields of the VM, the host's timer table and console,  *)
(* the index of the editor's text and the cached hash of the main script   *)
(***************************************************************************)
VARIABLES program, cachedHash, status, updateIntervalID, drawIntervalID, intervals, frames,
          frameIdx, fp, needsUpdate, needsDraw, constants, envs, stack, console

vars == << program, cachedHash, status, updateIntervalID, drawIntervalID, intervals, frames,
           frameIdx, fp, needsUpdate, needsDraw, constants, envs, stack, console >>

\* the fields as one record, the shape the operations above work on
VMState ==
    [status |-> status, updateIntervalID |-> updateIntervalID,
     drawIntervalID |-> drawIntervalID, intervals |-> intervals, frames |-> frames,
     frameIdx |-> frameIdx, fp |-> fp, needsUpdate |-> needsUpdate,
     needsDraw |-> needsDraw, constants |-> constants, envs |-> envs, stack |-> stack,
     console |-> console]

\* the fields of the VM take the values of the record vm
Fields(vm) ==
    /\ status' = vm.status
    /\ updateIntervalID' = vm.updateIntervalID
    /\ drawIntervalID' = vm.drawIntervalID
    /\ intervals' = vm.intervals
    /\ frames' = vm.frames
    /\ frameIdx' = vm.frameIdx
    /\ fp' = vm.fp
    /\ needsUpdate' = vm.needsUpdate
    /\ needsDraw' = vm.needsDraw
    /\ constants' = vm.constants
    /\ envs' = vm.envs
    /\ stack' = vm.stack
    /\ console' = vm.console

\* a method of the VM leaves the editor and the cached hash alone
Becomes(vm) == Fields(vm) /\ UNCHANGED << program, cachedHash >>

\* new VM() and addLibrary("game", ...) of the main script: nothing is loaded
\* yet, and the editor holds one of the programs, none of them an example of
\* the list
Init ==
    /\ program \in {i \in 1..Len(Programs) :
                        /\ Programs[i] \notin CallPrograms
                        /\ \A gameName \in DOMAIN BUILTIN_GAMES :
                               Programs[i] # BUILTIN_GAMES[gameName]
                        /\ \A n \in 1..Len(PrefixPrograms) : Programs[i] # PrefixPrograms[n]
                        /\ \A n \in 1..Len(LexemePrograms) : Programs[i] # LexemePrograms[n]
                        /\ \A n \in 1..Len(FunctionPrograms) : Programs[i] # FunctionPrograms[n]}
    /\ cachedHash = NullHash
    /\ \E vm \in {NewVM} :
          /\ status = vm.status
          /\ updateIntervalID = vm.updateIntervalID
          /\ drawIntervalID = vm.drawIntervalID
          /\ intervals = vm.intervals
          /\ frames = vm.frames
          /\ frameIdx = vm.frameIdx
          /\ fp = vm.fp
          /\ needsUpdate = vm.needsUpdate
          /\ needsDraw = vm.needsDraw
          /\ constants = vm.constants
          /\ envs = vm.envs
          /\ stack = vm.stack
          /\ console = vm.console

\* the play/pause button: VM.pause when the VM runs, else loadIfNeeded and
\* VM.run
PlayPause ==
    \E r \in {IF status = VMStatus.RUNNING
               THEN [vm |-> pause(VMState), cachedHash |-> cachedHash]
               ELSE loadIfNeeded(VMState, Programs[program], cachedHash)} :
    \E vm \in {IF status = VMStatus.RUNNING THEN r.vm ELSE run(r.vm)} :
        /\ InBounds(vm)
        /\ Fields(vm)
        /\ cachedHash' = r.cachedHash
        /\ UNCHANGED program

\* the stop button: VM.stop
Stop == \E vm \in {stop(VMState)} : Becomes(vm)

\* the step button: VM.step
StepCmd ==
    \E r \in {publicStep(VMState)} :
        /\ InBounds(r.vm)
        /\ Becomes(r.vm)

\* the update timer fires: VM.#multiStep
UpdateTick ==
    /\ \E iv \in intervals : iv.kind = "update"
    /\ \E r \in {multiStep(VMState)} :
           /\ r.inBounds
           /\ Becomes(r.vm)

\* the draw timer fires: the callback installed by VM.run
DrawTick ==
    /\ \E iv \in intervals : iv.kind = "draw"
    /\ needsDraw' = TRUE
    /\ UNCHANGED << program, cachedHash, status, updateIntervalID, drawIntervalID, intervals,
                    frames, frameIdx, fp, needsUpdate, constants, envs, stack, console >>

\* the changes of the editor's text the model follows, each from one text to
\* another: a text is replaced, and the first text is put back
Edits == {<< IfFalse, ThrowFirst >>, << ThrowFirst, IfFalse >>}

\* the user types in the editor, the textarea codeEditor: its text changes,
\* the VM and the cached hash stay as they are
EditText ==
    /\ \E e \in Edits, i \in 1..Len(Programs) :
           /\ Programs[program] = e[1]
           /\ Programs[i] = e[2]
           /\ program' = i
    /\ UNCHANGED << cachedHash, status, updateIntervalID, drawIntervalID, intervals, frames,
                    frameIdx, fp, needsUpdate, needsDraw, constants, envs, stack, console >>

\* the values of the options of the list of examples: "none" and one for each
\* name of BUILTIN_GAMES
ExampleOptions == {"none"} \cup DOMAIN BUILTIN_GAMES

\* the change listener of the list of examples: nothing is done for the
\* option "none"; for any other the editor's text becomes the text of the
\* example, and the VM and the cached hash stay as they are
SelectExample ==
    /\ \E value \in ExampleOptions :
           IF value = "none" THEN UNCHANGED program
           ELSE \E i \in 1..Len(Programs) :
                    /\ Programs[i] = BUILTIN_GAMES[value]
                    /\ program' = i
    /\ UNCHANGED << cachedHash, status, updateIntervalID, drawIntervalID, intervals, frames,
                    frameIdx, fp, needsUpdate, needsDraw, constants, envs, stack, console >>

\* the buttons of the runner and the timers, the editor's text staying as it is
RunnerNext == PlayPause \/ Stop \/ StepCmd \/ UpdateTick \/ DrawTick

Next == RunnerNext \/ EditText

\* the page with the list of examples as well; the editor holds a text whose
\* run leaves values on the value stack and lines in the console
ExampleInit == Init /\ Programs[program] = IfFalse

ExampleNext == Next \/ SelectExample

ExampleSpec == ExampleInit /\ [][ExampleNext]_vars

Spec == Init /\ [][Next]_vars

(***************************************************************************)
(* Reading a code array as instructions                                    *)
(***************************************************************************)

\* the number of operand slots a handler reads with #next after its opcode
OperandCount(op) ==
    IF op = Opcode.CALL THEN 2
    ELSE IF op \in {Opcode.GET_CONST, Opcode.DEF_VARIABLE, Opcode.GET_VARIABLE,
                    Opcode.SET_VARIABLE, Opcode.JUMP, Opcode.JUMP_IF_FALSE, Opcode.IMPORT}
    THEN 1
    ELSE 0

\* the 0-based indices of code at which an instruction starts, from idx on
RECURSIVE boundariesFrom(_, _)
boundariesFrom(code, idx) ==
    IF idx >= Len(code) THEN {}
    ELSE {idx} \cup boundariesFrom(code, idx + 1 + OperandCount(code[idx + 1]))

Boundaries(code) == boundariesFrom(code, 0)

\* the code array of the top frame
currentCode(vm) == vm.frames[vm.frameIdx + 1]

\* the next fetch of vm reads the opcode op at an instruction boundary
AtOpcode(vm, op) ==
    /\ vm.frames # << >>
    /\ vm.fp.t = "RawInt"
    /\ vm.fp.n \in Boundaries(currentCode(vm))
    /\ Slot(currentCode(vm), vm.fp.n).n = op

\* the Function a CALL at the pc of vm would enter, JSUndefined when the name
\* is bound to something else
callee(vm) ==
    getIdentifier(vm, identifierAt(vm, Slot(currentCode(vm), vm.fp.n + 2)))

\* the next instruction of vm is a CALL of a user-defined Function with as
\* many arguments as it has parameters, all of them on the value stack
AtFunctionCall(vm) ==
    /\ AtOpcode(vm, Opcode.CALL)
    /\ callee(vm).t = "Function"
    /\ Len(callee(vm).args) = Slot(currentCode(vm), vm.fp.n + 1).n
    /\ Len(callee(vm).args) <= Len(vm.stack)

(***************************************************************************)
(* C1: CALL ... RETURN resumes the caller                                  *)
(***************************************************************************)

\* the longest run of a function body that is followed to its RETURN
MaxCallSteps == 12

\* the fields after the steps that take vm back to frame depth depth, at
\* most n of them
RECURSIVE runToDepth(_, _, _)
runToDepth(vm, depth, n) ==
    IF n = 0 \/ vm.frameIdx <= depth \/ vm.status = VMStatus.STOPPED THEN vm
    ELSE runToDepth(vmStep(vm).vm, depth, n - 1)

\* C1: whenever the next instruction is a CALL of a user-defined Function with
\* a matching argument count, and the steps that follow reach the RETURN that
\* leaves the called frame, the VM is back at the frame depth of the CALL, on
\* the caller's code array, with the pc on the instruction right after the
\* CALL's two operands - whatever the body left on the value stack.
C1_ReturnResumesAfterCall ==
    AtFunctionCall(VMState) =>
        LET after == runToDepth(vmStep(VMState).vm, frameIdx, MaxCallSteps)
        IN after.frameIdx <= frameIdx =>
              /\ after.frameIdx = frameIdx
              /\ after.frames = frames
              /\ after.fp = RawInt(fp.n + 3)

(***************************************************************************)
(* C2: CALL binds the arguments to the parameters                          *)
(*                                                                         *)
(* The calls are those of ArgumentSpec, defined with the quotas below: a   *)
(* call with two arguments, a call of a function that declares one name    *)
(* twice, and the calls of the unbounded recursion, the 256th of which     *)
(* finds the env stack full and the 65,536th the value stack.              *)
(***************************************************************************)

\* the parameter names of fn in the order of their declaration
declaredParameters(fn) == ReverseSeq(fn.args)

\* the values a1..an a CALL of fn takes from the value stack of vm: its
\* Len(fn.args) topmost entries, the deepest of them first
argumentValues(vm, fn) ==
    SubSeq(vm.stack, Len(vm.stack) - Len(fn.args) + 1, Len(vm.stack))

\* the value stack of vm below those entries
underArguments(vm, fn) == SubSeq(vm.stack, 1, Len(vm.stack) - Len(fn.args))

\* the position of the first declaration of name among params
firstDeclared(params, name) ==
    CHOOSE i \in 1..Len(params) : params[i] = name /\ \A j \in 1..(i - 1) : params[j] # name

\* the Env whose bindings are the parameter names of fn, each bound to the
\* one of values at the position of the first declaration of the name
argumentEnv(fn, values) ==
    [k \in {RawStr(declaredParameters(fn)[i]) : i \in 1..Len(fn.args)} |->
        values[firstDeclared(declaredParameters(fn), k.s)]]

\* the CALL that took vm to after has removed exactly the arguments of fn
\* from the value stack: what was below them is all that is left of it, but
\* for the pc of the caller, which the VM keeps on top of it when the stack
\* has room (the subject of C19 and C15)
removesArguments(vm, after, fn) ==
    after.stack \in {underArguments(vm, fn),
                     Append(underArguments(vm, fn), RawInt(vm.fp.n + 3))}

\* that CALL has pushed exactly one frame, the code of fn, with pc 0
pushesOneFrame(vm, after, fn) ==
    /\ after.frames = Append(vm.frames, fn.code)
    /\ after.frameIdx = vm.frameIdx + 1
    /\ after.fp = RawInt(0)

\* that CALL has pushed exactly one Env, which binds the i-th declared
\* parameter of fn to the i-th argument, for every i
pushesEnvOfEachParameter(vm, after, fn) ==
    /\ Len(after.envs) = Len(vm.envs) + 1
    /\ SubSeq(after.envs, 1, Len(vm.envs)) = vm.envs
    /\ DOMAIN after.envs[Len(after.envs)] =
           {RawStr(declaredParameters(fn)[i]) : i \in 1..Len(fn.args)}
    /\ \A i \in 1..Len(fn.args) :
           after.envs[Len(after.envs)][RawStr(declaredParameters(fn)[i])] =
               argumentValues(vm, fn)[i]

\* that CALL has pushed the Env of the first declarations, unless the env
\* stack was full: then it has pushed none
pushesEnvUnlessFull(vm, after, fn) ==
    after.envs = IF Len(vm.envs) < EnvLimit
                 THEN Append(vm.envs, argumentEnv(fn, argumentValues(vm, fn)))
                 ELSE vm.envs

\* C2 as the specification states it: a CALL of a Function declared with
\* parameters p1..pn, made with the n arguments a1..an on the value stack,
\* removes exactly those n values from the value stack, pushes exactly one
\* frame with pc 0 and pushes exactly one new Env, which binds pi to ai for
\* every i.
C2_CallPushesOneEnv ==
    AtFunctionCall(VMState) =>
        /\ removesArguments(VMState, vmStep(VMState).vm, callee(VMState))
        /\ pushesOneFrame(VMState, vmStep(VMState).vm, callee(VMState))
        /\ pushesEnvOfEachParameter(VMState, vmStep(VMState).vm, callee(VMState))

\* C2, amended: such a CALL removes exactly those n values from the value
\* stack and pushes exactly one frame with pc 0; while the env stack holds
\* fewer than EnvLimit Envs it pushes exactly one new Env, which binds every
\* parameter name to the argument at the position of the first declaration
\* of the name (pi to ai for every i when the names are pairwise distinct);
\* on a full env stack it pushes no Env, and the new Env is discarded.
C2_CallBindsArguments ==
    AtFunctionCall(VMState) =>
        /\ removesArguments(VMState, vmStep(VMState).vm, callee(VMState))
        /\ pushesOneFrame(VMState, vmStep(VMState).vm, callee(VMState))
        /\ pushesEnvUnlessFull(VMState, vmStep(VMState).vm, callee(VMState))

\* C2 witness: (g 1 2) has entered g, declared (a b), with a = 1 and b = 2,
\* and the two arguments are gone from the value stack
C2_EnteredWithTwoArguments ==
    /\ Programs[program] = CallTwoArgs
    /\ frameIdx = 1
    /\ fp = RawInt(0)
    /\ Len(envs) = 2
    /\ envs[2] = [k \in {RawStr("a"), RawStr("b")} |->
                     IF k = RawStr("a") THEN NumberValue(1) ELSE NumberValue(2)]
    /\ \A i \in 1..Len(stack) : stack[i] \notin {NumberValue(1), NumberValue(2)}

(***************************************************************************)
(* C3: a running game stays in the kernel loop                             *)
(***************************************************************************)

\* C3: once a program that imports game and defines update and draw has been
\* loaded and run, it runs its top-level forms and then stays in the kernel
\* loop: a RUNNING VM of such a program never becomes STOPPED, unless by the
\* stop button.
C3_RunningGameStopsOnlyByButton ==
    [][(Programs[program] = Game /\ status = VMStatus.RUNNING /\ status' = VMStatus.STOPPED)
          => Stop]_vars

(***************************************************************************)
(* Where the compiler puts the pieces of a form                            *)
(***************************************************************************)

\* the number of code slots Compiler.compile has emitted when it reaches the
\* end of source (the RETURN it appends last is not counted)
emitted(source) == Len(compile(source).opcodes) - 1

\* a program is loaded and the pc of vm is in the root frame, on one of the
\* slots from .. to - 1
pcWithin(vm, from, to) ==
    /\ vm.frames # << >>
    /\ vm.frameIdx = 0
    /\ vm.fp.t = "RawInt"
    /\ from <= vm.fp.n
    /\ vm.fp.n < to

\* the value stack of vm has the Bool b on top
topIsBool(vm, b) == vm.stack # << >> /\ vm.stack[Len(vm.stack)] = BoolValue(b)

\* the lines print leaves on the console for the numbers of lines
printed(lines) == [i \in 1..Len(lines) |-> << NumberValue(lines[i]) >>]

\* the console ends with the lines of end
isSuffix(end, lines) ==
    Len(end) <= Len(lines) /\ end = SubSeq(lines, Len(lines) - Len(end) + 1, Len(lines))

(***************************************************************************)
(* C4: if with an else-block                                               *)
(***************************************************************************)

\* the programs that start with (if COND T E): head holds (if COND, lines is
\* what the block to run prints
IfElseForms ==
    << [head |-> IfTrueHead, thenBlock |-> PrintOneBlock, elseBlock |-> PrintTwoBlock,
        rest |-> ThenPrintThree, cond |-> TRUE, lines |-> printed(<< 1 >>)],
       [head |-> IfFalseHead, thenBlock |-> PrintOneBlock, elseBlock |-> PrintTwoBlock,
        rest |-> ThenPrintThree, cond |-> FALSE, lines |-> printed(<< 2 >>)],
       [head |-> IfTrueHead, thenBlock |-> NestedIfBlock, elseBlock |-> PrintTwoBlock,
        rest |-> ThenPrintThree, cond |-> TRUE, lines |-> printed(<< >>)] >>

\* the layout of the form f in the code array: T on the slots thenStart ..
\* thenEnd - 1, the JUMP over E on thenEnd, E on the slots elseStart ..
\* afterIf - 1
ifElseLayout(f) ==
    [thenStart |-> emitted(f.head),
     thenEnd |-> emitted(f.head \o f.thenBlock),
     elseStart |-> emitted(f.head \o f.thenBlock) + 2,
     afterIf |-> emitted(f.head \o f.thenBlock \o f.elseBlock)]

\* the block of the form that runs (with the JUMP that ends T) and the block
\* that does not, as the slots from .. to - 1
blockToRun(f, at) ==
    IF f.cond THEN [from |-> at.thenStart, to |-> at.thenEnd + 2]
    ELSE [from |-> at.elseStart, to |-> at.afterIf]
blockToSkip(f, at) ==
    IF f.cond THEN [from |-> at.elseStart, to |-> at.afterIf]
    ELSE [from |-> at.thenStart, to |-> at.thenEnd]

\* C4 for the form f laid out as at, with T running and E skipped or the
\* other way round
runsOneBlock(f, at, taken, skipped) ==
    /\ ~pcWithin(VMState, skipped.from, skipped.to)
    /\ pcWithin(VMState, taken.from, taken.to) =>
           \/ pcWithin(vmStep(VMState).vm, taken.from, taken.to)
           \/ vmStep(VMState).vm.fp = RawInt(at.afterIf)
    /\ pcWithin(VMState, at.afterIf, at.afterIf + 1) => isSuffix(f.lines, console)

\* C4: for (if COND T E), with COND true the pc never enters E, the steps
\* taken from T (and from the JUMP that ends it) stay in T until they reach
\* the first instruction after the form, and T has then run as a whole; with
\* COND false the same holds with E in the place of T and T in the place of E.
C4_IfElseRunsOneBlock ==
    \A i \in 1..Len(IfElseForms) :
        Programs[program] =
            IfElseForms[i].head \o IfElseForms[i].thenBlock \o IfElseForms[i].elseBlock
                \o IfElseForms[i].rest
        => runsOneBlock(IfElseForms[i], ifElseLayout(IfElseForms[i]),
                        blockToRun(IfElseForms[i], ifElseLayout(IfElseForms[i])),
                        blockToSkip(IfElseForms[i], ifElseLayout(IfElseForms[i])))

(***************************************************************************)
(* C5: if without an else-block                                            *)
(***************************************************************************)

\* the layout of (if false T), the first form of IfFalse: the JUMP_IF_FALSE
\* on thenStart - 2, T on the slots thenStart .. afterThen - 1
ifFalseLayout ==
    [thenStart |-> emitted(IfFalseHead), afterThen |-> emitted(IfFalseHead \o PrintOneBlock)]

\* C5 for the form laid out as at
skipsBlock(at) ==
    /\ ~pcWithin(VMState, at.thenStart, at.afterThen)
    /\ (pcWithin(VMState, at.thenStart - 2, at.thenStart - 1) /\ topIsBool(VMState, FALSE))
          => vmStep(VMState).vm.fp = RawInt(at.afterThen)

\* C5: for (if COND T) with COND false, the JUMP_IF_FALSE lands on the first
\* instruction emitted after T, and the pc never enters T.
C5_IfWithoutElseSkipsBlock ==
    Programs[program] = IfFalse => skipsBlock(ifFalseLayout)

(***************************************************************************)
(* C6: while                                                               *)
(***************************************************************************)

\* the programs with a loop: before is the source in front of the form, head
\* holds (while COND; passes is the number of times BODY is to run, each
\* time printing i and adding 1 to it
WhileForms ==
    << [before |-> LetIZero, head |-> WhileILessThree, body |-> PrintAndIncrementBlock,
        rest |-> << ")" >>, passes |-> 3],
       [before |-> << >>, head |-> WhileFalse, body |-> PrintOneBlock,
        rest |-> ThenPrintTwo, passes |-> 0] >>

\* the layout of the form f in the code array: COND on the slots condStart ..
\* bodyStart - 3, the JUMP_IF_FALSE on bodyStart - 2, BODY on bodyStart ..
\* afterWhile - 3, the backward JUMP on afterWhile - 2
whileLayout(f) ==
    [condStart |-> emitted(f.before),
     bodyStart |-> emitted(f.before \o f.head),
     afterWhile |-> emitted(f.before \o f.head \o f.body)]

\* the numbers 0 .. n - 1 in order
countTo(n) == [k \in 1..n |-> k - 1]

\* BODY has run n times: i is n and the console ends with the lines 0 .. n - 1
passed(n) ==
    /\ getIdentifier(VMState, RawStr("i")) = NumberValue(n)
    /\ isSuffix(printed(countTo(n)), console)

\* C6 for the form f laid out as at
loops(f, at) ==
    /\ pcWithin(VMState, at.afterWhile - 2, at.afterWhile - 1)
          => vmStep(VMState).vm.fp = RawInt(at.condStart)
    /\ (pcWithin(VMState, at.bodyStart - 2, at.bodyStart - 1) /\ topIsBool(VMState, FALSE))
          => vmStep(VMState).vm.fp = RawInt(at.afterWhile)
    /\ (pcWithin(VMState, at.bodyStart - 2, at.bodyStart - 1) /\ topIsBool(VMState, TRUE))
          => vmStep(VMState).vm.fp = RawInt(at.bodyStart)
    /\ f.passes = 0 => ~pcWithin(VMState, at.bodyStart, at.afterWhile)
    /\ (f.passes > 0 /\ pcWithin(VMState, at.bodyStart, at.bodyStart + 1))
          => \E n \in 0..(f.passes - 1) : passed(n)
    /\ (f.passes > 0 /\ pcWithin(VMState, at.afterWhile, at.afterWhile + 1))
          => passed(f.passes)

\* C6: for (while COND BODY) the backward JUMP after BODY lands on the first
\* instruction of COND; the JUMP_IF_FALSE lands on the instruction right after
\* that JUMP when COND is false and falls through to BODY when it is true; so
\* BODY runs once per true COND: never for (while false ..), and three times,
\* with i = 0, 1, 2, for (let i 0) (while (< i 3) ((print i) (+= i 1))).
C6_WhileLoops ==
    \A i \in 1..Len(WhileForms) :
        Programs[program] =
            WhileForms[i].before \o WhileForms[i].head \o WhileForms[i].body
                \o WhileForms[i].rest
        => loops(WhileForms[i], whileLayout(WhileForms[i]))

\* C6 witness: the counting loop has printed 0, 1, 2 and its JUMP_IF_FALSE has
\* just left the loop
C6_CountedToThree ==
    /\ Programs[program] = WhileThree
    /\ isSuffix(printed(<< 0, 1, 2 >>), console)
    /\ getIdentifier(VMState, RawStr("i")) = NumberValue(3)
    /\ frameIdx = 0
    /\ fp = RawInt(whileLayout(WhileForms[1]).afterWhile)
    /\ status = VMStatus.PAUSED

(***************************************************************************)
(* C7: every fetch is at an instruction boundary                           *)
(***************************************************************************)

\* C7: while the VM is not STOPPED, so that its next step fetches an opcode,
\* the pc is the index of an instruction boundary of the top frame's code
\* array: not an operand slot, not an index at or beyond the end.
C7_FetchAtInstructionBoundary ==
    status # VMStatus.STOPPED =>
        /\ fp.t = "RawInt"
        /\ fp.n \in Boundaries(currentCode(VMState))

(***************************************************************************)
(* C8: the range of the jump offsets                                       *)
(***************************************************************************)

\* the code arrays of the loaded program: the arrays on the frame stack, the
\* main array first, and the array of every Function in the constant pool
codeArrays ==
    {frames[i] : i \in 1..Len(frames)} \cup
        {constants[i].code : i \in {j \in 1..Len(constants) : constants[j].t = "Function"}}

\* the 0-based positions of the operand slots of the JUMP and JUMP_IF_FALSE
\* instructions of code
jumpOperands(code) ==
    {b + 1 : b \in {x \in Boundaries(code) :
                        code[x + 1] \in {Opcode.JUMP, Opcode.JUMP_IF_FALSE}}}

\* C8 as the specification states it: in every code array, the offset d of a
\* JUMP or JUMP_IF_FALSE, stored at position p, satisfies 0 <= p + d <= len.
C8_OffsetsFromZero ==
    \A code \in codeArrays : \A p \in jumpOperands(code) :
        0 <= p + code[p + 1] /\ p + code[p + 1] <= Len(code)

\* C8, amended: in every code array, the offset d of a JUMP or JUMP_IF_FALSE,
\* stored in the operand slot p, satisfies -1 <= p + d <= len; the pc the
\* jump leaves is p + 1 + d.
C8_OffsetsFromMinusOne ==
    \A code \in codeArrays : \A p \in jumpOperands(code) :
        -1 <= p + code[p + 1] /\ p + code[p + 1] <= Len(code)

\* C8 witness: the loaded program starts with a while, whose backward JUMP
\* has p + d = -1
C8_WhileAtStart ==
    /\ Programs[program] = WhileFirst
    /\ frames # << >>
    /\ \E p \in jumpOperands(frames[1]) : p + frames[1][p + 1] = -1

(***************************************************************************)
(* C10: a stopped VM executes nothing                                      *)
(***************************************************************************)

\* the longest run of steps searched for the step that stops the VM
MaxStopSearch == 40

\* the fields when vm first is STOPPED, after at most n steps
RECURSIVE runToStop(_, _)
runToStop(vm, n) ==
    IF n = 0 \/ vm.status = VMStatus.STOPPED THEN vm
    ELSE runToStop(vmStep(vm).vm, n - 1)

\* C10: when a step of a #multiStep batch stops the VM (its handler throws, or
\* it is the RETURN of the root frame), the VM is STOPPED with both timers
\* cancelled, and the rest of the batch executes nothing: the batch ends with
\* the pc, the value stack and the env stack that step left.
C10_StoppedBatchExecutesNothing ==
    ((\E iv \in intervals : iv.kind = "update") /\ multiStep(VMState).inBounds) =>
        LET stopped == runToStop([VMState EXCEPT !.needsUpdate = TRUE], MaxStopSearch)
            batch == multiStep(VMState).vm
        IN stopped.status = VMStatus.STOPPED =>
              /\ stopped.intervals = {}
              /\ batch.status = VMStatus.STOPPED
              /\ batch.fp = stopped.fp
              /\ batch.stack = stopped.stack
              /\ batch.envs = stopped.envs

(***************************************************************************)
(* C9: the tick predicates                                                 *)
(*                                                                         *)
(* No program the compiler accepts names __needs_update or __needs_draw,   *)
(* since the Lexer does not start an identifier with an underscore.  The   *)
(* predicates are therefore applied here as bytecode would apply them: by  *)
(* the native branch of the CALL handler, with no argument, at any moment  *)
(* of the life of a VM whose editor holds a game.                          *)
(***************************************************************************)

\* the native branch of the Opcode.CALL handler for a predicate called with
\* no argument: the host callable runs and its return value is pushed
callPredicate(vm, name) ==
    LET Returned(native) == push(native.vm, native.value)
    IN Returned(callNative(vm, name, << >>))

NativeInit == Init /\ Programs[program] = Game

\* bytecode calls __needs_update
CallNeedsUpdate ==
    \E vm \in {callPredicate(VMState, "__needs_update")} :
        /\ InBounds(vm)
        /\ Becomes(vm)

\* bytecode calls __needs_draw
CallNeedsDraw ==
    \E vm \in {callPredicate(VMState, "__needs_draw")} :
        /\ InBounds(vm)
        /\ Becomes(vm)

NativeNext ==
    PlayPause \/ Stop \/ StepCmd \/ UpdateTick \/ DrawTick \/ CallNeedsUpdate \/ CallNeedsDraw

NativeSpec == NativeInit /\ [][NativeNext]_vars

\* C9: a call of __needs_update returns Bool(true) exactly when the
\* needs_update flag is set, clears that flag and leaves needs_draw alone, so
\* that a call made right after one that returned true returns false; the
\* same holds for __needs_draw with the flags exchanged; and a flag that is
\* clear becomes set only by its own tick.
C9_PredicatesReadAndClear ==
    [][/\ CallNeedsUpdate =>
              /\ stack' = Append(stack, BoolValue(needsUpdate))
              /\ needsUpdate' = FALSE
              /\ needsDraw' = needsDraw
              /\ callNative(VMState', "__needs_update", << >>).value = BoolValue(FALSE)
       /\ CallNeedsDraw =>
              /\ stack' = Append(stack, BoolValue(needsDraw))
              /\ needsDraw' = FALSE
              /\ needsUpdate' = needsUpdate
              /\ callNative(VMState', "__needs_draw", << >>).value = BoolValue(FALSE)
       /\ (~needsUpdate /\ needsUpdate') => UpdateTick
       /\ (~needsDraw /\ needsDraw') => DrawTick]_vars

\* C9 witness: each predicate has been called with its flag set: both
\* returned true and both flags are clear
C9_BothReturnedTrue ==
    /\ stack = << BoolValue(TRUE), BoolValue(TRUE) >>
    /\ ~needsUpdate
    /\ ~needsDraw

(***************************************************************************)
(* C11: load                                                               *)
(***************************************************************************)

\* the names VM.#initGlobalEnv binds
BuiltinNames ==
    {RawStr("bool"), RawStr("number"), RawStr("string"), RawStr("function"),
     RawStr("print"), RawStr("__needs_update"), RawStr("__needs_draw")}

\* the fields of a VM that has just been loaded: stopped, no timer of the VM
\* alive, one frame at pc 0, one env holding the built-ins alone
justLoaded(vm) ==
    /\ vm.status = VMStatus.STOPPED
    /\ vm.updateIntervalID = -1
    /\ vm.drawIntervalID = -1
    /\ vm.intervals = {}
    /\ Len(vm.frames) = 1
    /\ vm.frameIdx = 0
    /\ vm.fp = RawInt(0)
    /\ Len(vm.envs) = 1
    /\ DOMAIN vm.envs[1] = BuiltinNames

\* C11: whatever state the VM is in, load(source) leaves it stopped with no
\* tick scheduled, with the compiled main code as its only frame at pc 0, and
\* with one global env that holds the built-ins and nothing a program loaded
\* before had defined or imported.
C11_LoadResets ==
    LET Loaded(after) ==
            /\ justLoaded(after)
            /\ after.frames[1] # << >>
            /\ after.frames[1][Len(after.frames[1])] = Opcode.RETURN
    IN Loaded(load(VMState, Programs[program]))

\* C11 witness: the program was loaded again over a VM that had run before
\* (the value stack, which load leaves alone, still holds a value of that
\* run); the button that loaded it has started it
C11_LoadedOverEarlierRun ==
    /\ status = VMStatus.RUNNING
    /\ Len(frames) = 1
    /\ frameIdx = 0
    /\ fp = RawInt(0)
    /\ Len(envs) = 1
    /\ DOMAIN envs[1] = BuiltinNames
    /\ stack # << >>

(***************************************************************************)
(* C12: stop                                                               *)
(***************************************************************************)

\* C12: the stop button cancels both ticks, leaves the VM stopped and resets
\* the program counter state: the pc is 0 and the frame stack holds the root
\* frame alone, wherever the VM was, a nested call included.
C12_StopResetsThePc ==
    [][Stop =>
           /\ status' = VMStatus.STOPPED
           /\ updateIntervalID' = -1
           /\ drawIntervalID' = -1
           /\ intervals' = {}
           /\ fp' = RawInt(0)
           /\ frameIdx' = 0
           /\ Len(frames') = 1]_vars

(***************************************************************************)
(* C13: pause and resume                                                   *)
(***************************************************************************)

\* the ticks VM.run schedules are the only timers alive
ticksScheduled(ivs, updateID, drawID) ==
    /\ updateID # -1
    /\ drawID # -1
    /\ updateID # drawID
    /\ ivs = {[id |-> updateID, kind |-> "update"], [id |-> drawID, kind |-> "draw"]}

\* C13: pressing the button on a running VM (pause) cancels both ticks and
\* leaves the VM paused with its pc, frames, value stack, envs, constants and
\* both flags as they were; pressing it again while the editor holds the text
\* that was loaded (run alone, loadIfNeeded loading nothing) schedules the
\* ticks and leaves the same fields as they were, so the next batch starts
\* with the instruction the paused VM was about to execute.
C13_PauseKeepsState ==
    [][/\ (status = VMStatus.RUNNING /\ PlayPause) =>
              /\ status' = VMStatus.PAUSED
              /\ updateIntervalID' = -1
              /\ drawIntervalID' = -1
              /\ intervals' = {}
              /\ UNCHANGED << frames, frameIdx, fp, stack, envs, constants, needsUpdate,
                              needsDraw >>
       /\ (/\ status = VMStatus.PAUSED
           /\ cachedHash = hashOf(Trim(Programs[program]))
           /\ PlayPause) =>
              /\ status' = VMStatus.RUNNING
              /\ ticksScheduled(intervals', updateIntervalID', drawIntervalID')
              /\ UNCHANGED << frames, frameIdx, fp, stack, envs, constants, needsUpdate,
                              needsDraw >>
              /\ vmStep(VMState').vm.fp = vmStep(VMState).vm.fp
              /\ vmStep(VMState').vm.stack = vmStep(VMState).vm.stack]_vars

\* C13 witness: the recursion was paused by the button between two batches,
\* inside the calls the first batch had made
C13_PausedInsideCalls ==
    /\ Programs[program] = CallDeep
    /\ status = VMStatus.PAUSED
    /\ intervals = {}
    /\ frameIdx = MultiStepCount - 2
    /\ fp = RawInt(0)

(***************************************************************************)
(* C14: step                                                               *)
(***************************************************************************)

\* the pc of vm is at an instruction of the current code array
atInstruction(vm) ==
    /\ vm.frames # << >>
    /\ vm.fp.t = "RawInt"
    /\ vm.fp.n \in Boundaries(currentCode(vm))
    /\ vm.fp.n < Len(currentCode(vm))

\* the opcodes whose handlers move the pc themselves
ControlOpcodes == {Opcode.JUMP, Opcode.JUMP_IF_FALSE, Opcode.CALL, Opcode.RETURN}

\* after holds what one instruction of vm leaves: the fields #step leaves, the
\* pc past the instruction and its operands when the instruction is no jump,
\* call or return
executedOne(vm, after) ==
    LET one == vmStep(vm).vm
        op == Slot(currentCode(vm), vm.fp.n).n
    IN /\ after.frames = one.frames
       /\ after.frameIdx = one.frameIdx
       /\ after.fp = one.fp
       /\ after.stack = one.stack
       /\ after.envs = one.envs
       /\ after.console = one.console
       /\ after.needsUpdate = one.needsUpdate
       /\ after.needsDraw = one.needsDraw
       /\ op \notin ControlOpcodes => after.fp = RawInt(vm.fp.n + 1 + OperandCount(op))

\* the status step() leaves: stopped when the instruction stopped the VM (the
\* RETURN of the root frame, or a handler that threw), paused otherwise
statusAfterStep(vm, after) ==
    LET op == Slot(currentCode(vm), vm.fp.n)
        stops == \/ (op.n = Opcode.RETURN /\ vm.frameIdx = 0)
                 \/ handle(vmNext(vm).vm, op).thrown
    IN after.status = IF stops THEN VMStatus.STOPPED
                      ELSE IF vm.status = VMStatus.RUNNING THEN VMStatus.PAUSED
                      ELSE vm.status

\* step() on vm cancels the ticks and executes one instruction
stepsOne(vm) ==
    LET Stepped(after) ==
            /\ executedOne(vm, after)
            /\ statusAfterStep(vm, after)
            /\ vm.status = VMStatus.RUNNING =>
                   (after.intervals = {} /\ after.updateIntervalID = -1
                                         /\ after.drawIntervalID = -1)
    IN Stepped(publicStep(vm).vm)

\* C14 as stated: a VM that holds a program, whether it is stopped as load
\* left it, paused or running, executes exactly one instruction on step(); a
\* running VM has its ticks cancelled first and ends paused unless the
\* instruction stopped it.
C14_StepInAnyStatus ==
    (atInstruction(VMState) /\ (status = VMStatus.STOPPED => justLoaded(VMState)))
        => stepsOne(VMState)

\* C14: a paused or running VM executes exactly one instruction on step(); a
\* running VM has its ticks cancelled first and ends paused unless the
\* instruction stopped it; on a stopped VM step() does nothing.
C14_StepWhenNotStopped ==
    /\ (atInstruction(VMState) /\ status # VMStatus.STOPPED) => stepsOne(VMState)
    /\ status = VMStatus.STOPPED => publicStep(VMState).vm = VMState

\* C14 witness: the step button was pressed once on the program that starts
\* with a function definition: its first instruction, GET_CONST, has pushed
\* the function and the VM is paused before the DEF_VARIABLE
C14_SteppedOnce ==
    /\ Programs[program] = CallEmptyBody
    /\ status = VMStatus.PAUSED
    /\ intervals = {}
    /\ frameIdx = 0
    /\ fp = RawInt(2)
    /\ Len(stack) = 1
    /\ stack[1].t = "Function"
    /\ AtOpcode(VMState, Opcode.DEF_VARIABLE)

(***************************************************************************)
(* C15: the quotas of the value stack and of the env stack                 *)
(*                                                                         *)
(* The unbounded recursion (fun r () ((r))) (r) is followed batch by batch *)
(* until both stacks are full and beyond: every call pushes one saved pc   *)
(* on the value stack and one env on the env stack.                        *)
(***************************************************************************)

\* the deepest frame stack from which a batch is still followed
MaxQuotaFrames == 82000

\* n calls of #step in sequence (the first half of them, then the rest), cut
\* short by an exception that leaves #step
RECURSIVE stepTimes(_, _)
stepTimes(r, n) ==
    IF r.escaped \/ n = 0 THEN r
    ELSE IF n = 1 THEN vmStep(r.vm)
    ELSE stepTimes(stepTimes(r, n \div 2), n - (n \div 2))

\* VM.#multiStep, whatever the depth it reaches
batch(vm) ==
    stepTimes([vm |-> [vm EXCEPT !.needsUpdate = TRUE], escaped |-> FALSE],
              MultiStepCount).vm

\* the recursion has been loaded and started by the play button
QuotaInit ==
    /\ program \in 1..Len(Programs)
    /\ Programs[program] = CallDeep
    /\ cachedHash = hashOf(Trim(Programs[program]))
    /\ \E vm \in {run(load(NewVM, Programs[program]))} :
          /\ status = vm.status
          /\ updateIntervalID = vm.updateIntervalID
          /\ drawIntervalID = vm.drawIntervalID
          /\ intervals = vm.intervals
          /\ frames = vm.frames
          /\ frameIdx = vm.frameIdx
          /\ fp = vm.fp
          /\ needsUpdate = vm.needsUpdate
          /\ needsDraw = vm.needsDraw
          /\ constants = vm.constants
          /\ envs = vm.envs
          /\ stack = vm.stack
          /\ console = vm.console

\* the update timer fires: VM.#multiStep
QuotaTick ==
    /\ \E iv \in intervals : iv.kind = "update"
    /\ frameIdx <= MaxQuotaFrames
    /\ \E vm \in {batch(VMState)} : Becomes(vm)

QuotaNext == QuotaTick

QuotaSpec == QuotaInit /\ [][QuotaNext]_vars

\* the programs whose calls C2 is about: a call with two arguments, a call of
\* a function that declares one name twice, and the unbounded recursion
ArgumentPrograms == {CallTwoArgs, CallSameName, CallDeep}

\* one of them has been loaded and started by the play button
ArgumentInit ==
    /\ program \in 1..Len(Programs)
    /\ Programs[program] \in ArgumentPrograms
    /\ cachedHash = hashOf(Trim(Programs[program]))
    /\ \E vm \in {run(load(NewVM, Programs[program]))} :
          /\ status = vm.status
          /\ updateIntervalID = vm.updateIntervalID
          /\ drawIntervalID = vm.drawIntervalID
          /\ intervals = vm.intervals
          /\ frames = vm.frames
          /\ frameIdx = vm.frameIdx
          /\ fp = vm.fp
          /\ needsUpdate = vm.needsUpdate
          /\ needsDraw = vm.needsDraw
          /\ constants = vm.constants
          /\ envs = vm.envs
          /\ stack = vm.stack
          /\ console = vm.console

\* the step button follows it instruction by instruction, the update timer
\* batch by batch
ArgumentNext == StepCmd \/ QuotaTick

ArgumentSpec == ArgumentInit /\ [][ArgumentNext]_vars

\* the call the VM is about to execute enters a function and finds the value
\* stack (ofStack is TRUE) or the env stack (ofStack is FALSE) at its quota:
\* the push is dropped, the call goes on and the status stays
dropsPush(vm, after, ofStack) ==
    /\ after.status = vm.status
    /\ after.frameIdx = vm.frameIdx + 1
    /\ after.fp = RawInt(0)
    /\ ofStack => after.stack = vm.stack
    /\ ~ofStack => after.envs = vm.envs

\* C15: the value stack never holds more than 65,536 entries and the env
\* stack never more than 256; a push at the quota is dropped and the VM goes
\* on in the status it had.
C15_QuotasHold ==
    /\ Len(stack) <= StackLimit
    /\ Len(envs) <= EnvLimit
    /\ (Len(stack) = StackLimit /\ AtFunctionCall(VMState))
           => dropsPush(VMState, vmStep(VMState).vm, TRUE)
    /\ (Len(envs) = EnvLimit /\ AtFunctionCall(VMState))
           => dropsPush(VMState, vmStep(VMState).vm, FALSE)

\* the instructions ahead of vm fill the value stack, and the call that
\* follows drops its push
fillsValueStack(vm) ==
    \E r \in {stepTimes([vm |-> vm, escaped |-> FALSE], 2 * StackLimit)} :
       /\ ~r.escaped
       /\ r.vm.status = VMStatus.RUNNING
       /\ Len(r.vm.stack) = StackLimit
       /\ r.vm.frameIdx > StackLimit
       /\ AtFunctionCall(r.vm)
       /\ dropsPush(r.vm, vmStep(r.vm).vm, TRUE)

\* C15 witness: the env stack is full, more calls have been made than it
\* holds envs, the VM is about to make another, and the calls ahead fill the
\* value stack as well
C15_EnvStackFull ==
    /\ status = VMStatus.RUNNING
    /\ Len(envs) = EnvLimit
    /\ frameIdx > EnvLimit
    /\ Len(stack) < StackLimit
    /\ AtFunctionCall(VMState)
    /\ fillsValueStack(VMState)

(***************************************************************************)
(* C16: DEF_VARIABLE                                                       *)
(***************************************************************************)

\* the name operand of the instruction at the pc of vm
operandName(vm) == identifierAt(vm, Slot(currentCode(vm), vm.fp.n + 1))

\* the value stack of vm without its top entry
stackBelowTop(vm) == SubSeq(vm.stack, 1, Len(vm.stack) - 1)

\* after holds the envs of vm, except that env number at (1-based) binds name
\* to value and keeps its other bindings
bindsIn(vm, after, at, name, value) ==
    /\ Len(after.envs) = Len(vm.envs)
    /\ \A i \in 1..Len(vm.envs) : i # at => after.envs[i] = vm.envs[i]
    /\ DOMAIN after.envs[at] = DOMAIN vm.envs[at] \cup {name}
    /\ after.envs[at][name] = value
    /\ \A k \in DOMAIN vm.envs[at] : k # name => after.envs[at][k] = vm.envs[at][k]

\* the effect claimed for DEF_VARIABLE
definesVariable(vm, after) ==
    /\ after.status = vm.status
    /\ after.stack = stackBelowTop(vm)
    /\ IF operandName(vm) \in DOMAIN vm.envs[Len(vm.envs)]
       THEN after.envs = vm.envs
       ELSE bindsIn(vm, after, Len(vm.envs), operandName(vm), peekStack(vm))

\* C16: DEF_VARIABLE pops one value; a name the top env lacks is bound to it
\* in the top env only, whatever the enclosing envs bind, and a name the top
\* env holds leaves every env as it is.
C16_DefVariable ==
    (AtOpcode(VMState, Opcode.DEF_VARIABLE) /\ envs # << >> /\ stack # << >>)
        => definesVariable(VMState, vmStep(VMState).vm)

\* C16 witness: inside f, x has just been defined as 3 in the env of the call
\* while the global env still binds x to 1, the value of its first definition
C16_ShadowedInCall ==
    /\ Programs[program] = Define
    /\ Len(envs) = 2
    /\ RawStr("x") \in DOMAIN envs[1]
    /\ RawStr("x") \in DOMAIN envs[2]
    /\ envs[1][RawStr("x")] = NumberValue(1)
    /\ envs[2][RawStr("x")] = NumberValue(3)

(***************************************************************************)
(* C17: SET_VARIABLE                                                       *)
(***************************************************************************)

\* the envs of vm that bind name, as 1-based positions
bindingEnvs(vm, name) == {i \in 1..Len(vm.envs) : name \in DOMAIN vm.envs[i]}

\* the greatest member of a non-empty set of numbers
Greatest(S) == CHOOSE i \in S : \A j \in S : j <= i

\* the effect claimed for SET_VARIABLE
setsVariable(vm, after) ==
    /\ after.status = vm.status
    /\ after.stack = stackBelowTop(vm)
    /\ bindsIn(vm, after,
               IF bindingEnvs(vm, operandName(vm)) = {} THEN Len(vm.envs)
               ELSE Greatest(bindingEnvs(vm, operandName(vm))),
               operandName(vm), peekStack(vm))

\* C17: SET_VARIABLE pops one value and assigns it in the innermost env that
\* binds the name, or in the top env when no env binds it; every other env
\* stays as it is.
C17_SetVariable ==
    (AtOpcode(VMState, Opcode.SET_VARIABLE) /\ envs # << >> /\ stack # << >>)
        => setsVariable(VMState, vmStep(VMState).vm)

\* C17 witness: f has assigned its parameter x, which the global env binds as
\* well, the global name f, and y, which nothing bound
C17_AssignedInBothEnvs ==
    /\ Programs[program] = Assign
    /\ Len(envs) = 2
    /\ DOMAIN envs[2] = {RawStr("x"), RawStr("y")}
    /\ envs[2][RawStr("x")] = NumberValue(3)
    /\ envs[2][RawStr("y")] = NumberValue(5)
    /\ RawStr("y") \notin DOMAIN envs[1]
    /\ envs[1][RawStr("x")] = NumberValue(1)
    /\ envs[1][RawStr("f")] = NumberValue(4)

(***************************************************************************)
(* C18: GET_VARIABLE                                                       *)
(***************************************************************************)

\* the value claimed for a read of name: the binding of the innermost env
\* that binds it, a Value tagged Undefined when no env does
UndefinedValue == [t |-> "Undefined", n |-> 0, s |-> "", args |-> << >>, code |-> << >>]
valueRead(vm, name) ==
    IF bindingEnvs(vm, name) = {} THEN UndefinedValue
    ELSE vm.envs[Greatest(bindingEnvs(vm, name))][name]

\* the effect claimed for GET_VARIABLE
getsVariable(vm, after) ==
    /\ after.status = vm.status
    /\ after.envs = vm.envs
    /\ after.stack = Append(vm.stack, valueRead(vm, operandName(vm)))

\* C18: GET_VARIABLE pushes the binding of the innermost env that binds the
\* name and changes no env; a name bound nowhere pushes an Undefined value and
\* the VM goes on.
C18_GetVariable ==
    (AtOpcode(VMState, Opcode.GET_VARIABLE) /\ Len(stack) < StackLimit)
        => getsVariable(VMState, vmStep(VMState).vm)

(***************************************************************************)
(* C19: what the value stack holds                                         *)
(***************************************************************************)

\* C19: every entry of the value stack is a Value (a Bool, Number, String,
\* Function, NativeFunction, Type, Undefined or Error): no saved pc, no raw
\* integer and no host undefined is ever on it.
C19_StackHoldsValues ==
    \A i \in 1..Len(stack) : stack[i].t \in ValueTags \cup {UndefinedValue.t}

(***************************************************************************)
(* C20: an Error value as the condition of a branch                        *)
(***************************************************************************)

\* the jump of the JUMP_IF_FALSE at the pc of vm is taken: the condition is
\* popped, the pc moves past the operand and then by the offset, the status
\* stays
takesJump(vm, after) ==
    /\ after.status = vm.status
    /\ after.stack = stackBelowTop(vm)
    /\ after.fp = RawInt(vm.fp.n + 2 + Slot(currentCode(vm), vm.fp.n + 1).n)

\* C20: a JUMP_IF_FALSE that pops an Error value takes it for false: the jump
\* is taken and the VM keeps its status.
C20_ErrorConditionIsFalsey ==
    (AtOpcode(VMState, Opcode.JUMP_IF_FALSE) /\ stack # << >> /\ peekStack(VMState).t = "Error")
        => takesJump(VMState, vmStep(VMState).vm)

(***************************************************************************)
(* Single instructions applied to operands                                 *)
(*                                                                         *)
(* The handlers as functions of their operands: the VM is loaded and       *)
(* paused, its code array is one instruction followed by RETURN, and the   *)
(* value stack holds up to two values of any variant.  The step button     *)
(* executes the instruction.                                               *)
(***************************************************************************)

\* the largest magnitude of a Number operand
MaxNumber == 3

\* values of every variant: the Error is the one a division by zero leaves,
\* and the Number that is no integer is 0.1, the double nearest to 1/10
OperandValues ==
    {NumberValue(k) : k \in (-MaxNumber)..MaxNumber}
        \cup {NumberDouble(1, << 19661, 6553, 13107, 102 >>, -55)}
        \cup {BoolValue(TRUE), BoolValue(FALSE), StringValue(<< >>), StringValue(<< "a", "b" >>),
              ErrorValue("division by zero"), NativeFunctionValue("print", -1),
              TypeValue("String"), FunctionValue("f", << >>, << Opcode.RETURN >>)}

OperandStacks ==
    {<< >>} \cup {<< a >> : a \in OperandValues}
        \cup {<< a, b >> : a \in OperandValues, b \in OperandValues}

\* the names a CALL instruction is given: the NativeFunctions and the Types
\* of the global Env
CallableNames == {"print", "__needs_update", "__needs_draw", "bool", "number", "string", "function"}

\* a code array of one instruction, and the constants its operand indexes
Instruction(code, consts) == [code |-> code \o << Opcode.RETURN >>, constants |-> consts]
Instructions ==
    {Instruction(<< op >>, << >>) :
        op \in BinaryOpcodes \cup {Opcode.NEGATE, Opcode.NOT, Opcode.TRUE, Opcode.FALSE,
                                   Opcode.POP, Opcode.DUP}}
        \cup {Instruction(<< Opcode.GET_CONST, 0 >>, << NumberValue(1) >>),
              Instruction(<< Opcode.IMPORT, 0 >>, << RawStr("game") >>)}
        \cup {Instruction(<< op, 0 >>, << RawStr(name) >>) :
                 op \in {Opcode.DEF_VARIABLE, Opcode.GET_VARIABLE, Opcode.SET_VARIABLE},
                 name \in {"x", "print"}}
        \cup {Instruction(<< op, 0 >>, << >>) : op \in {Opcode.JUMP, Opcode.JUMP_IF_FALSE}}
        \cup {Instruction(<< Opcode.JUMP, 1 >>, << >>)}
        \cup {Instruction(<< Opcode.CALL, n, 0 >>, << RawStr(name) >>) :
                 n \in 0..2, name \in CallableNames}

OperandInit ==
    /\ program = 1
    /\ cachedHash = hashOf(Trim(Programs[program]))
    /\ \E loaded \in {pause(run(load(NewVM, Programs[program])))} :
       \E ins \in Instructions, values \in OperandStacks :
       \E vm \in {[loaded EXCEPT !.frames = << ins.code >>, !.constants = ins.constants,
                                 !.stack = values]} :
          /\ status = vm.status
          /\ updateIntervalID = vm.updateIntervalID
          /\ drawIntervalID = vm.drawIntervalID
          /\ intervals = vm.intervals
          /\ frames = vm.frames
          /\ frameIdx = vm.frameIdx
          /\ fp = vm.fp
          /\ needsUpdate = vm.needsUpdate
          /\ needsDraw = vm.needsDraw
          /\ constants = vm.constants
          /\ envs = vm.envs
          /\ stack = vm.stack
          /\ console = vm.console

\* the step button: VM.step
Execute == \E r \in {publicStep(VMState)} : Becomes(r.vm)

\* nothing has been executed and the value stack holds two operands
twoOperands == status = VMStatus.PAUSED /\ fp = RawInt(0) /\ Len(stack) = 2

\* a method of value.js that no instruction reaches, called on the two
\* operands; the value it returns is kept on top of them
Returns(result) ==
    /\ result # Thrown
    /\ Becomes([VMState EXCEPT !.stack = Append(stack, result)])

\* a.div(b)
Divide == twoOperands /\ Returns(div(stack[1], stack[2]))

\* a.fdiv(b)
FloorDivide == twoOperands /\ Returns(fdiv(stack[1], stack[2]))

OperandNext == Execute \/ Divide \/ FloorDivide

OperandSpec == OperandInit /\ [][OperandNext]_vars

\* the instruction has not been executed yet; op is its opcode and the value
\* stack holds n values
aboutTo(vm, op, n) ==
    /\ vm.status = VMStatus.PAUSED
    /\ vm.fp = RawInt(0)
    /\ AtOpcode(vm, op)
    /\ Len(vm.stack) = n

(***************************************************************************)
(* C21: binary opcodes over operands of every variant                      *)
(***************************************************************************)

\* the effect claimed for a binary opcode: one Value replaces the operands,
\* an Error when an operand is one, and the status stays
pushesOneValue(vm, after) ==
    /\ after.status = vm.status
    /\ Len(after.stack) = 1
    /\ IsValue(after.stack[1])
    /\ (vm.stack[1].t = "Error" \/ vm.stack[2].t = "Error") => after.stack[1].t = "Error"

\* C21: every binary opcode applied to two Values of any variant, Errors
\* included, pushes exactly one Value, an Error when an operand is an Error,
\* and the VM does not stop.
C21_BinaryPushesOneValue ==
    (\E op \in BinaryOpcodes : aboutTo(VMState, op, 2)) =>
        pushesOneValue(VMState, publicStep(VMState).vm)

(***************************************************************************)
(* C23: CALL of a NativeFunction                                           *)
(***************************************************************************)

\* the argument count of the CALL at the pc of vm
argCount(vm) == Slot(currentCode(vm), vm.fp.n + 1).n

\* the values a CALL at the pc of vm takes as arguments, deepest first, and
\* the value stack below them
argumentsOf(vm) == SubSeq(vm.stack, Len(vm.stack) - argCount(vm) + 1, Len(vm.stack))
belowArguments(vm) == SubSeq(vm.stack, 1, Len(vm.stack) - argCount(vm))

\* the instruction about to be executed calls a NativeFunction with arguments
\* that are on the value stack and that its callable accepts (print raises an
\* exception when it formats an Error)
atNativeCall(vm) ==
    /\ aboutTo(vm, Opcode.CALL, Len(vm.stack))
    /\ callee(vm).t = "NativeFunction"
    /\ argCount(vm) <= Len(vm.stack)
    /\ \A i \in 1..Len(argumentsOf(vm)) : argumentsOf(vm)[i].t # "Error"

\* the effect claimed for the CALL of the NativeFunction name: print has
\* written its arguments, in the order they were written in the program, and
\* returned nothing; a tick predicate has returned the Bool of its flag
nativeEffect(vm, after, name) ==
    /\ after.status = vm.status
    /\ after.fp = RawInt(3)
    /\ after.envs = vm.envs
    /\ after.frames = vm.frames
    /\ after.frameIdx = vm.frameIdx
    /\ name = "print" =>
          /\ after.stack = belowArguments(vm)
          /\ after.console = Append(vm.console, argumentsOf(vm))
    /\ name = "__needs_update" =>
          /\ after.stack = Append(belowArguments(vm), BoolValue(vm.needsUpdate))
          /\ after.console = vm.console
          /\ ~after.needsUpdate
    /\ name = "__needs_draw" =>
          /\ after.stack = Append(belowArguments(vm), BoolValue(vm.needsDraw))
          /\ after.console = vm.console
          /\ ~after.needsDraw

\* C23: a CALL of a NativeFunction with n arguments pops exactly n values,
\* hands them to the host callable in source order (the first-written
\* argument first), has run the callable when the step ends, pushes the
\* callable's result exactly when it returned a Value, and pushes neither an
\* env nor a frame.
C23_NativeCall ==
    atNativeCall(VMState) => nativeEffect(VMState, publicStep(VMState).vm, callee(VMState).s)

\* C23 witness: print has been called with the arguments 1 and 2, written in
\* that order: the console holds them in that order and both were popped
C23_PrintedInOrder ==
    /\ console = << << NumberValue(1), NumberValue(2) >> >>
    /\ stack = << >>
    /\ fp = RawInt(3)
    /\ status = VMStatus.PAUSED

(***************************************************************************)
(* C24: the arity of a NativeFunction                                      *)
(***************************************************************************)

\* NativeFunctionValue.call(args): the fields after, the value returned and
\* whether the callable threw
nativeFunctionCall(vm, fn, args) ==
    IF fn.n # -1 /\ Len(args) # fn.n
    THEN [vm |-> vm, value |-> ErrorValue("error calling"), thrown |-> FALSE]
    ELSE callNative(vm, fn.s, args)

\* the NativeFunctions of the global Env
GlobalNatives == {GlobalEnv[k] : k \in {k \in DOMAIN GlobalEnv : GlobalEnv[k].t = "NativeFunction"}}

\* fn is given a number of arguments that is not its arity
arityMismatch(fn, count) == fn.n # -1 /\ count # fn.n

\* the callable was not invoked and an Error is the result
rejected(vm, after, result) ==
    /\ result.t = "Error"
    /\ after.needsUpdate = vm.needsUpdate
    /\ after.needsDraw = vm.needsDraw
    /\ after.console = vm.console

\* C24: a NativeFunction of fixed arity k given n # k arguments does not
\* invoke its callable and yields an Error value, both through
\* NativeFunctionValue.call (here with the value stack as the arguments) and
\* through a CALL instruction, whose Error is pushed; a NativeFunction of
\* arity -1 accepts any number of arguments.
C24_ArityChecked ==
    /\ \A fn \in GlobalNatives : \A r \in {nativeFunctionCall(VMState, fn, stack)} :
          IF arityMismatch(fn, Len(stack)) THEN rejected(VMState, r.vm, r.value)
          ELSE r = callNative(VMState, fn.s, stack)
    /\ atNativeCall(VMState) =>
          \A after \in {publicStep(VMState).vm} :
             IF arityMismatch(callee(VMState), argCount(VMState))
             THEN /\ after.status = status
                  /\ Len(after.stack) = Len(belowArguments(VMState)) + 1
                  /\ rejected(VMState, after, after.stack[Len(after.stack)])
             ELSE nativeEffect(VMState, after, callee(VMState).s)

(***************************************************************************)
(* C28: floor division and division by zero                                *)
(***************************************************************************)

\* v is a Number that is an integer below 2^31 in magnitude
isInteger(v) == v.t = "Number" /\ v.s = ""

\* q is the Number floor(a / b), b # 0: the integer with q * b <= a < (q + 1) * b
\* when b is positive, and with the inequalities turned when b is negative
isFloorOf(q, a, b) ==
    /\ isInteger(q)
    /\ b > 0 => q.n * b <= a /\ a < (q.n + 1) * b
    /\ b < 0 => q.n * b >= a /\ a > (q.n + 1) * b

\* C28: for integer Numbers a and b, a.fdiv(b) is the Number floor(a / b),
\* rounded toward negative infinity whatever the signs, when b is not 0; and
\* both a.div(b) and a.fdiv(b) are the Error "division by zero", not a
\* Number, when b is 0.
C28_FloorDivision ==
    [][(twoOperands /\ isInteger(stack[1]) /\ isInteger(stack[2])) =>
          /\ FloorDivide =>
                IF stack[2].n = 0 THEN stack'[3] = ErrorValue("division by zero")
                ELSE isFloorOf(stack'[3], stack[1].n, stack[2].n)
          /\ (Divide /\ stack[2].n = 0) => stack'[3] = ErrorValue("division by zero")]_vars

\* C28 witness: -3 has been floor-divided by 2, which gave -2
C28_FlooredBelowZero ==
    /\ fp = RawInt(0)
    /\ stack = << NumberValue(-3), NumberValue(2), NumberValue(-2) >>

(***************************************************************************)
(* C29: indexing a String                                                  *)
(***************************************************************************)

\* the instruction about to be executed is DOT and its operands are a String
\* and an integer Number
atStringIndex(vm) ==
    /\ aboutTo(vm, Opcode.DOT, 2)
    /\ vm.stack[1].t = "String"
    /\ isInteger(vm.stack[2])

\* C29: String.dot(Number i) is the one-character String at position i when
\* 0 <= i < length and an Error value for every other integer i, the negative
\* ones included.
C29_StringIndex ==
    atStringIndex(VMState) =>
        \A r \in {dot(stack[1], stack[2])}, after \in {publicStep(VMState).vm} :
            /\ after.stack = << r >>
            /\ IF 0 <= stack[2].n /\ stack[2].n < Len(stack[1].args)
               THEN r = StringValue(<< stack[1].args[stack[2].n + 1] >>)
               ELSE r.t = "Error"

(***************************************************************************)
(* Programs that call built-in names                                       *)
(***************************************************************************)

\* the editor holds one of the programs that call built-in names
CallInit ==
    /\ program \in {i \in 1..Len(Programs) : Programs[i] \in CallPrograms}
    /\ cachedHash = NullHash
    /\ \E vm \in {NewVM} :
          /\ status = vm.status
          /\ updateIntervalID = vm.updateIntervalID
          /\ drawIntervalID = vm.drawIntervalID
          /\ intervals = vm.intervals
          /\ frames = vm.frames
          /\ frameIdx = vm.frameIdx
          /\ fp = vm.fp
          /\ needsUpdate = vm.needsUpdate
          /\ needsDraw = vm.needsDraw
          /\ constants = vm.constants
          /\ envs = vm.envs
          /\ stack = vm.stack
          /\ console = vm.console

CallSpec == CallInit /\ [][RunnerNext]_vars

(***************************************************************************)
(* C22: stack underflow                                                    *)
(***************************************************************************)

\* the opcodes whose handlers pop a value
PoppingOpcodes ==
    {Opcode.POP, Opcode.DEF_VARIABLE, Opcode.SET_VARIABLE, Opcode.JUMP_IF_FALSE,
     Opcode.NEGATE, Opcode.NOT} \cup BinaryOpcodes

\* the next instruction of vm pops a value and the value stack is empty
underflows(vm) ==
    /\ vm.status # VMStatus.STOPPED
    /\ vm.stack = << >>
    /\ \E op \in PoppingOpcodes : AtOpcode(vm, op)

\* C22: an instruction that pops a value while the value stack is empty halts
\* the VM: its step leaves the status STOPPED, the value stack empty and the
\* envs as they were, so that the missing value is neither bound nor pushed.
C22_UnderflowHalts ==
    underflows(VMState) =>
        \A after \in {vmStep(VMState).vm} :
            /\ after.status = VMStatus.STOPPED
            /\ after.stack = << >>
            /\ after.envs = envs

(***************************************************************************)
(* C25: calling a Type                                                     *)
(***************************************************************************)

\* the caster of the Type type applied to value (VM.#initGlobalEnv): bool
\* calls truthy(), which no Value defines; number and string read getValue()
\* first, which an Error raises as an exception, and number calls parseInt on
\* a string, which is no method of it.
caster(type, value) ==
    CASE type.s = "Bool" -> Thrown
      [] type.s = "Number" ->
            IF value.t \in {"Error", "String"} THEN Thrown
            ELSE IF value.t = "Bool" THEN NumberValue(value.n)
            ELSE ErrorValue("cannot cast")
      [] type.s = "String" ->
            (CASE value.t = "Error" -> Thrown
               [] value.t = "Bool" ->
                     StringValue(IF value.n = 1 THEN << "t", "r", "u", "e" >>
                                 ELSE << "f", "a", "l", "s", "e" >>)
               [] value.t = "Number" -> StringValue(NumberToChars(value))
               [] value.t \notin {"Error", "Bool", "Number"} -> ErrorValue("cannot cast"))
      [] type.s = "Function" ->
            IF value.t = "Error" THEN Thrown ELSE ErrorValue("cannot cast")

\* TypeValue.call(args), args not empty
typeCall(type, args) ==
    IF ~IsValue(args[1]) THEN Thrown
    ELSE IF args[1].t = type.s THEN args[1]
    ELSE caster(type, args[1])

\* the next instruction of vm calls a Type with one argument, which is on the
\* value stack
atTypeCall(vm) ==
    /\ vm.status # VMStatus.STOPPED
    /\ AtOpcode(vm, Opcode.CALL)
    /\ callee(vm).t = "Type"
    /\ argCount(vm) = 1
    /\ vm.stack # << >>

\* C25: a CALL of a built-in Type is a cast: it replaces the argument by
\* what TypeValue.call returns for it (the argument itself when it has the
\* variant of the Type, else the caster's result) and the VM keeps its status.
C25_TypeCallCasts ==
    atTypeCall(VMState) =>
        \A after \in {vmStep(VMState).vm} :
            /\ after.status = status
            /\ after.stack = Append(belowArguments(VMState),
                                    typeCall(callee(VMState), argumentsOf(VMState)))

(***************************************************************************)
(* C26: the value-stack signature of an instruction                        *)
(***************************************************************************)

\* the change of the value stack's length the specification gives for op (the
\* Opcode table has no UNDEFINED member, so no code array holds that opcode)
Signature(op) ==
    IF op \in {Opcode.GET_CONST, Opcode.GET_VARIABLE, Opcode.TRUE, Opcode.FALSE, Opcode.DUP}
    THEN 1
    ELSE IF op \in {Opcode.DEF_VARIABLE, Opcode.SET_VARIABLE, Opcode.POP, Opcode.JUMP_IF_FALSE}
                       \cup BinaryOpcodes
    THEN -1
    ELSE 0

\* the opcode at the pc of vm
opcodeAt(vm) == Slot(currentCode(vm), vm.fp.n).n

\* C26: every instruction other than CALL and RETURN changes the length of
\* the value stack by its signature: +1 for GET_CONST, GET_VARIABLE, TRUE,
\* FALSE and DUP, -1 for DEF_VARIABLE, SET_VARIABLE, POP, JUMP_IF_FALSE and
\* the binary operators, 0 for NEGATE, NOT, JUMP and IMPORT.
C26_StackSignature ==
    (/\ status # VMStatus.STOPPED
     /\ atInstruction(VMState)
     /\ opcodeAt(VMState) \notin {Opcode.CALL, Opcode.RETURN}) =>
        Len(vmStep(VMState).vm.stack) = Len(stack) + Signature(opcodeAt(VMState))

(***************************************************************************)
(* C27: code arrays end with RETURN                                        *)
(***************************************************************************)

\* the editor holds a prefix of FunInFun
CompileInit ==
    /\ program \in {i \in 1..Len(Programs) :
                        \E n \in 1..Len(PrefixPrograms) : Programs[i] = PrefixPrograms[n]}
    /\ cachedHash = NullHash
    /\ \E vm \in {NewVM} :
          /\ status = vm.status
          /\ updateIntervalID = vm.updateIntervalID
          /\ drawIntervalID = vm.drawIntervalID
          /\ intervals = vm.intervals
          /\ frames = vm.frames
          /\ frameIdx = vm.frameIdx
          /\ fp = vm.fp
          /\ needsUpdate = vm.needsUpdate
          /\ needsDraw = vm.needsDraw
          /\ constants = vm.constants
          /\ envs = vm.envs
          /\ stack = vm.stack
          /\ console = vm.console

CompileSpec == CompileInit /\ [][RunnerNext]_vars

endsWithReturn(code) == code # << >> /\ code[Len(code)] = Opcode.RETURN

\* the main code array and the code array of every Function among the
\* constants end with RETURN
allEndWithReturn(opcodes, consts) ==
    /\ endsWithReturn(opcodes)
    /\ \A i \in 1..Len(consts) : consts[i].t = "Function" => endsWithReturn(consts[i].code)

\* C27: compile() ends the main code array with RETURN and so does the code
\* array of every Function it creates, whether the text is well formed or the
\* compilation breaks off: for the editor's text compiled alone (looked at
\* before anything is loaded) and for the text followed by the kernel, which
\* is what a loaded VM holds.
C27_CodeEndsWithReturn ==
    /\ frames = << >> =>
          \A compiled \in {compile(Programs[program])} :
              allEndWithReturn(compiled.opcodes, compiled.constants)
    /\ frames # << >> => allEndWithReturn(frames[1], constants)

\* C27 witness: the compilation of `(fun f (a) ((fun g () ((print a))) (g`
\* broke off inside the block of f after g was created: the VM is loaded with
\* a main code array that holds the unfinished block, and with the Function g
C27_BrokeOffInFunction ==
    /\ frames # << >>
    /\ Programs[program] = SubSeq(FunInFun, 1, 38)
    /\ compile(Programs[program]).aborted
    /\ \E i \in 1..Len(constants) : constants[i].t = "Function" /\ constants[i].s = "g"
    /\ \A i \in 1..Len(constants) : constants[i].t = "Function" => constants[i].s # "f"
    /\ Len(frames[1]) > 1

(***************************************************************************)
(* C30: identifier lexemes                                                 *)
(***************************************************************************)

\* the editor holds the call of a name
LexemeInit ==
    /\ program \in {i \in 1..Len(Programs) :
                        \E n \in 1..Len(LexemePrograms) : Programs[i] = LexemePrograms[n]}
    /\ cachedHash = NullHash
    /\ \E vm \in {NewVM} :
          /\ status = vm.status
          /\ updateIntervalID = vm.updateIntervalID
          /\ drawIntervalID = vm.drawIntervalID
          /\ intervals = vm.intervals
          /\ frames = vm.frames
          /\ frameIdx = vm.frameIdx
          /\ fp = vm.fp
          /\ needsUpdate = vm.needsUpdate
          /\ needsDraw = vm.needsDraw
          /\ constants = vm.constants
          /\ envs = vm.envs
          /\ stack = vm.stack
          /\ console = vm.console

LexemeSpec == LexemeInit /\ [][RunnerNext]_vars

KeywordTypes == {KeywordType(k) : k \in Keywords}

\* the name between the parentheses of the editor's text
lexemeOf(text) == SubSeq(text, 2, Len(text) - 1)

\* the token is a keyword or IDENTIFIER token that carries the whole lexeme
carriesLexeme(tok, chars) ==
    /\ tok.type \in KeywordTypes \cup {"IDENTIFIER"}
    /\ tok.s = Substring(chars, 0, Len(chars))

\* the tokens of `(name)`: the parentheses around one token for the name
oneTokenForName(toks, chars) ==
    /\ Len(toks) = 4
    /\ toks[1].type = "LPAREN"
    /\ carriesLexeme(toks[2], chars)
    /\ toks[3].type = "RPAREN"
    /\ toks[4].type = "EOF"

\* C30: every lexeme that starts with a letter or `_` and goes on with
\* letters, digits or `_` is lexed as one keyword or IDENTIFIER token that
\* carries the whole lexeme, for the editor's text `(name)` alone and for the
\* first tokens of the text followed by the kernel, which is what load() hands
\* to the compiler; a name that begins with `_` is no ERROR token.
C30_IdentifierLexeme ==
    /\ isLexeme(lexemeOf(Programs[program]))
    /\ oneTokenForName(Lex(Programs[program]), lexemeOf(Programs[program]))
    /\ frames # << >> =>
          oneTokenForName(SubSeq(Lex(Programs[program] \o KERNEL), 1, 3) \o << Token("EOF", "EOF", 0) >>,
                          lexemeOf(Programs[program]))

(***************************************************************************)
(* Programs that define functions and call them                            *)
(***************************************************************************)

\* the editor holds one of the programs with functions
FunctionInit ==
    /\ program \in {i \in 1..Len(Programs) :
                        \E n \in 1..Len(FunctionPrograms) : Programs[i] = FunctionPrograms[n]}
    /\ cachedHash = NullHash
    /\ \E vm \in {NewVM} :
          /\ status = vm.status
          /\ updateIntervalID = vm.updateIntervalID
          /\ drawIntervalID = vm.drawIntervalID
          /\ intervals = vm.intervals
          /\ frames = vm.frames
          /\ frameIdx = vm.frameIdx
          /\ fp = vm.fp
          /\ needsUpdate = vm.needsUpdate
          /\ needsDraw = vm.needsDraw
          /\ constants = vm.constants
          /\ envs = vm.envs
          /\ stack = vm.stack
          /\ console = vm.console

FunctionSpec == FunctionInit /\ [][RunnerNext]_vars

(***************************************************************************)
(* C31: a CALL whose argument count differs from the arity                 *)
(***************************************************************************)

\* the next instruction of vm is a CALL of a user-defined Function with more
\* or with fewer arguments than it has parameters
atMismatchedCall(vm) ==
    /\ atInstruction(vm)
    /\ AtOpcode(vm, Opcode.CALL)
    /\ callee(vm).t = "Function"
    /\ Len(callee(vm).args) # argCount(vm)

\* after is vm with the pc behind the two operands of the CALL, and nothing
\* else changed
skippedCall(vm, after) == after = [vm EXCEPT !.fp = RawInt(vm.fp.n + 3)]

\* C31: a CALL of a Function whose argument count differs from the arity
\* pushes no env and no frame, leaves the pc at the instruction after the
\* CALL's operands and leaves the value stack as it was, the arguments
\* included and no result pushed.
C31_MismatchedCallSkipped ==
    atMismatchedCall(VMState) => skippedCall(VMState, vmStep(VMState).vm)

\* C31 witness: (f 1 2) has been skipped, f having one parameter: the pc is
\* behind the CALL, both arguments are on the value stack, and there is one
\* frame and one env
C31_SkippedWithTwoArguments ==
    /\ Programs[program] = ArityMismatch
    /\ status = VMStatus.PAUSED
    /\ fp = RawInt(11)
    /\ stack = << NumberValue(1), NumberValue(2) >>
    /\ frameIdx = 0
    /\ Len(envs) = 1
    /\ Len(frames) = 1

(***************************************************************************)
(* C32: what a fun form compiles to                                        *)
(***************************************************************************)

\* the operand of op, counted from 1, that is an index of the constant pool
ConstantOperand(op) ==
    IF op = Opcode.CALL THEN 2
    ELSE IF op \in {Opcode.GET_CONST, Opcode.DEF_VARIABLE, Opcode.GET_VARIABLE,
                    Opcode.SET_VARIABLE, Opcode.IMPORT}
    THEN 1
    ELSE 0

\* a code array read as instructions from index idx on, each with its
\* operands: an index of the constant pool is replaced by the constant, and
\* the code array of a Function constant is read in the same way
RECURSIVE instructionsFrom(_, _, _)
instructionsFrom(code, consts, idx) ==
    IF idx >= Len(code) THEN << >>
    ELSE LET op == code[idx + 1]
             Constant(slot) ==
                 IF ~slot.def \/ slot.n < 0 \/ slot.n >= Len(consts) THEN JSUndefined
                 ELSE IF consts[slot.n + 1].t = "Function"
                 THEN [consts[slot.n + 1] EXCEPT
                          !.code = instructionsFrom(consts[slot.n + 1].code, consts, 0)]
                 ELSE consts[slot.n + 1]
             OperandAt(k) ==
                 IF k = ConstantOperand(op) THEN Constant(Slot(code, idx + k))
                 ELSE IF Slot(code, idx + k).def THEN RawInt(code[idx + k + 1])
                 ELSE JSUndefined
         IN << [op |-> op, operands |-> [k \in 1..OperandCount(op) |-> OperandAt(k)]] >>
                \o instructionsFrom(code, consts, idx + 1 + OperandCount(op))

\* the instructions of the main code array of a compiled program
instructionsOf(compiled) == instructionsFrom(compiled.opcodes, compiled.constants, 0)

\* the instructions with the Number 9 in the place of the Function name, in
\* the code arrays of the other Functions as well
RECURSIVE withoutFunction(_, _)
withoutFunction(instructions, name) ==
    LET Operand(v) ==
            IF v.t # "Function" THEN v
            ELSE IF v.s = name THEN NumberValue(9)
            ELSE [v EXCEPT !.code = withoutFunction(v.code, name)]
    IN [i \in 1..Len(instructions) |->
           [instructions[i] EXCEPT
               !.operands = [k \in 1..Len(instructions[i].operands) |->
                                Operand(instructions[i].operands[k])]]]

\* the Functions the instructions name, those named inside their code arrays
\* included
RECURSIVE functionsIn(_)
functionsIn(instructions) ==
    UNION {UNION {IF instructions[i].operands[k].t = "Function"
                  THEN {instructions[i].operands[k]}
                           \cup functionsIn(instructions[i].operands[k].code)
                  ELSE {} : k \in 1..Len(instructions[i].operands)}
               : i \in 1..Len(instructions)}

\* the next two instructions of vm define a Function: GET_CONST of a Function
\* constant, then DEF_VARIABLE
atFunctionDefinition(vm) ==
    /\ atInstruction(vm)
    /\ AtOpcode(vm, Opcode.GET_CONST)
    /\ constantAt(vm, Slot(currentCode(vm), vm.fp.n + 1)).t = "Function"
    /\ Slot(currentCode(vm), vm.fp.n + 2).n = Opcode.DEF_VARIABLE

\* after is vm two instructions later with nothing of a body executed: the
\* same frames, value stack and console, the pc behind the two instructions
definedOnly(vm, after) ==
    /\ after.frames = vm.frames
    /\ after.frameIdx = vm.frameIdx
    /\ after.fp = RawInt(vm.fp.n + 4)
    /\ after.stack = vm.stack
    /\ after.console = vm.console
    /\ after.status = vm.status

\* C32: for a form (fun NAME (P*) (BODY)) at the top level, inside the block
\* of an if, or inside the body of another function, the compiled program is
\* the one of the same text with (let NAME 9) in the place of the form, but
\* for the Function in the place of the 9: the enclosing code array holds
\* GET_CONST, DEF_VARIABLE for the form and no opcode of BODY.  The code array
\* of the Function is the main code array of BODY compiled alone, which is
\* BODY's opcodes followed by RETURN, jump offsets included.  Executing the
\* two instructions of the form executes nothing of BODY.
C32_FunCompiled ==
    /\ \A i \in 1..Len(FunForms) :
          Programs[program] = FunText(FunForms[i]) =>
              \A whole \in {compile(FunText(FunForms[i]))} :
                  /\ ~whole.aborted
                  /\ withoutFunction(instructionsOf(whole),
                                     Substring(FunForms[i].name, 0, Len(FunForms[i].name)))
                        = instructionsOf(compile(LetText(FunForms[i])))
                  /\ \E fn \in functionsIn(instructionsOf(whole)) :
                        /\ fn.s = Substring(FunForms[i].name, 0, Len(FunForms[i].name))
                        /\ fn.code = instructionsOf(compile(FunForms[i].body))
    /\ atFunctionDefinition(VMState) =>
          definedOnly(VMState, vmStep(vmStep(VMState).vm).vm)

\* C32 witness: the function n, defined in the body of o, has been defined by
\* the call (o 1): the pc is behind its GET_CONST and DEF_VARIABLE in the
\* code array of o, the env of the call binds n, and nothing is printed
C32_DefinedInsideFunction ==
    /\ Programs[program] = FunText(OuterFun)
    /\ frameIdx = 1
    /\ fp = RawInt(4)
    /\ Len(envs) = 2
    /\ RawStr("n") \in DOMAIN envs[2]
    /\ envs[2][RawStr("n")].t = "Function"
    /\ console = << >>

(***************************************************************************)
(* C33: IMPORT                                                             *)
(***************************************************************************)

\* the module the IMPORT at the pc of vm names
importedName(vm) == PropertyKey(constantAt(vm, Slot(currentCode(vm), vm.fp.n + 1)))

\* the next instruction of vm is the IMPORT of a registered module
atImport(vm) ==
    /\ atInstruction(vm)
    /\ AtOpcode(vm, Opcode.IMPORT)
    /\ importedName(vm) \in DOMAIN Libraries
    /\ vm.envs # << >>

\* merged holds every binding of module, and besides them the bindings of
\* target under the names module does not bind
mergedInto(target, module, merged) ==
    /\ DOMAIN merged = (DOMAIN target) \cup (DOMAIN module)
    /\ \A k \in DOMAIN module : merged[k] = module[k]
    /\ \A k \in (DOMAIN target) \ (DOMAIN module) : merged[k] = target[k]

\* C33: the IMPORT of a registered module copies every binding of the
\* module's env into the top env of the env stack, over a binding of the same
\* name that is there already, and changes neither the envs below the top nor
\* the value stack nor the frames; the pc is behind the operand.  (The module
\* env in the registry is read only: every import finds the same bindings.)
C33_ImportMerges ==
    atImport(VMState) =>
        \A after \in {vmStep(VMState).vm} :
            /\ Len(after.envs) = Len(envs)
            /\ mergedInto(envs[Len(envs)], Libraries[importedName(VMState)],
                          after.envs[Len(envs)])
            /\ \A i \in 1..(Len(envs) - 1) : after.envs[i] = envs[i]
            /\ after.stack = stack
            /\ after.frames = frames
            /\ after.frameIdx = frameIdx
            /\ after.fp = RawInt(fp.n + 2)
            /\ after.status = status

\* C33 witness: (import game) has run inside f, whose parameter is named
\* clear: the env of the call binds clear to the NativeFunction of the module
\* and the other names of the module, and the global env binds clear to 5 and
\* none of the other names
C33_ImportedOverParameter ==
    /\ Programs[program] = ImportInFun
    /\ frameIdx = 1
    /\ fp = RawInt(2)
    /\ Len(envs) = 2
    /\ DOMAIN envs[2] = DOMAIN GameLibrary
    /\ envs[2][RawStr("clear")] = NativeFunctionValue("clear", 0)
    /\ envs[1][RawStr("clear")] = NumberValue(5)
    /\ RawStr("draw_rect") \notin DOMAIN envs[1]

(***************************************************************************)
(* C34: one dispatch key for each opcode                                   *)
(***************************************************************************)

\* the next fetch of vm reads a slot outside the code array, which holds no
\* opcode
fetchesNoOpcode(vm) ==
    /\ vm.frames # << >>
    /\ vm.fp.t = "RawInt"
    /\ ~Slot(currentCode(vm), vm.fp.n).def

\* after is what #step leaves when the table has no handler for what was
\* fetched: the call of the missing handler raises an exception, the VM is
\* stopped, and nothing but the pc and the status has changed
ranNoHandler(vm, after) == after = stop([vm EXCEPT !.fp = RawInt(vm.fp.n + 1)])

\* C34: every opcode the VM has a handler for, UNDEFINED, FLOOR_DIV, AND and
\* OR included, is a member of Opcode with an integer of its own; no two of
\* them share a key of the handler table, so that the table holds under the
\* key of each opcode the handler written for it; and a fetch that yields no
\* opcode runs the handler of none.
C34_OwnDispatchKey ==
    /\ \A i \in 1..Len(HandlerNames) :
          /\ HandlerNames[i] \in DOMAIN Opcode
          /\ handlerAt(handlerKey(HandlerNames[i])) = HandlerNames[i]
          /\ \A j \in 1..Len(HandlerNames) :
                i # j => handlerKey(HandlerNames[i]) # handlerKey(HandlerNames[j])
    /\ fetchesNoOpcode(VMState) => ranNoHandler(VMState, vmStep(VMState).vm)

(***************************************************************************)
(* C35: the names a function body resolves                                 *)
(***************************************************************************)

\* the name the instruction at the pc of vm resolves: the operand of
\* GET_VARIABLE and SET_VARIABLE, the second operand of CALL
resolvedName(vm) ==
    identifierAt(vm, Slot(currentCode(vm),
                        vm.fp.n + (IF Slot(currentCode(vm), vm.fp.n).n = Opcode.CALL THEN 2 ELSE 1)))

\* the next instruction of vm, inside a function body, resolves a name
resolvesInFunction(vm) ==
    /\ atInstruction(vm)
    /\ vm.frameIdx >= 1
    /\ Len(vm.envs) = vm.frameIdx + 1
    /\ Slot(currentCode(vm), vm.fp.n).n
          \in {Opcode.GET_VARIABLE, Opcode.SET_VARIABLE, Opcode.CALL}

\* the envs of a function body: its own, on top of the env stack, and the
\* global one at the bottom (as 0-based indices)
ownEnvs(vm) == {0, Len(vm.envs) - 1}

\* the next instruction of vm is the RETURN of a function
atFunctionReturn(vm) ==
    /\ atInstruction(vm)
    /\ vm.frameIdx >= 1
    /\ Len(vm.envs) = vm.frameIdx + 1
    /\ AtOpcode(vm, Opcode.RETURN)

\* C35 as the specification states it: inside a function body a name
\* resolves to the body's own env or to the global env, or nowhere: never to
\* the env of a caller; an assignment changes no env of a caller; and the
\* RETURN of a function removes its env, with the names its let forms have
\* bound, and leaves the envs below as they are.
C35_LexicalScope ==
    /\ resolvesInFunction(VMState) =>
          /\ findIdentifier(VMState, resolvedName(VMState)) \in {-1} \cup ownEnvs(VMState)
          /\ \A i \in 2..(Len(envs) - 1) : vmStep(VMState).vm.envs[i] = envs[i]
    /\ atFunctionReturn(VMState) =>
          vmStep(VMState).vm.envs = SubSeq(envs, 1, Len(envs) - 1)

\* the value a read of name yields: the binding of the innermost env of the
\* env stack that binds it, the host's undefined when no env does
innermostValue(vm, name) ==
    IF bindingEnvs(vm, name) = {} THEN JSUndefined
    ELSE vm.envs[Greatest(bindingEnvs(vm, name))][name]

\* C35, amended: inside a function body a name resolves through the env
\* stack from the top down: to the body's own env, else to the env of the
\* nearest caller that binds it, else to the global env.  A read pushes the
\* binding of the innermost env that binds the name, an assignment replaces
\* that binding (in the env of a caller, when that is the innermost one) or
\* defines the name in the body's own env when no env binds it, and the
\* RETURN of a function removes its env with the names its let forms have
\* bound.
C35_DynamicScope ==
    /\ (resolvesInFunction(VMState) /\ AtOpcode(VMState, Opcode.GET_VARIABLE)) =>
          /\ vmStep(VMState).vm.stack
                = Append(stack, innermostValue(VMState, resolvedName(VMState)))
          /\ vmStep(VMState).vm.envs = envs
    /\ (resolvesInFunction(VMState) /\ AtOpcode(VMState, Opcode.SET_VARIABLE)
           /\ stack # << >>) =>
          bindsIn(VMState, vmStep(VMState).vm,
                  IF bindingEnvs(VMState, resolvedName(VMState)) = {} THEN Len(envs)
                  ELSE Greatest(bindingEnvs(VMState, resolvedName(VMState))),
                  resolvedName(VMState), peekStack(VMState))
    /\ atFunctionReturn(VMState) =>
          vmStep(VMState).vm.envs = SubSeq(envs, 1, Len(envs) - 1)

\* C35 witness: g, called by f, has assigned 2 to a, which only the env of f
\* binds, and has read it: f's parameter a is 2, the env of g and the global
\* env do not bind a, and the value read is 2
C35_AssignedInCaller ==
    /\ Programs[program] = CallerName
    /\ frameIdx = 2
    /\ fp = RawInt(6)
    /\ Len(envs) = 3
    /\ envs[2] = [k \in {RawStr("a")} |-> NumberValue(2)]
    /\ RawStr("a") \notin DOMAIN envs[3]
    /\ RawStr("a") \notin DOMAIN envs[1]
    /\ stack[Len(stack)] = NumberValue(2)

(***************************************************************************)
(* C36: what remains of a compilation that breaks off                      *)
(***************************************************************************)

\* the number of parentheses open after the first i characters of text
depthAt(text, i) ==
    Cardinality({j \in 1..i : text[j] = "("}) - Cardinality({j \in 1..i : text[j] = ")"})

\* the lengths of the prefixes of text that end with a top-level form
formEnds(text) == {i \in 1..Len(text) : text[i] = ")" /\ depthAt(text, i) = 0}

\* the top-level forms of text that are compiled completely: the longest
\* prefix of text that ends with a top-level form and compiles without an
\* error
completeForms(text) ==
    SubSeq(text, 1, Greatest({0} \cup {i \in formEnds(text) : ~compile(SubSeq(text, 1, i)).aborted}))

\* C36: when the compilation breaks off at an error, the main code array
\* holds the opcodes of the top-level forms that were compiled completely,
\* followed by RETURN, and nothing of the form the error is in: for the
\* editor's text compiled alone (looked at before anything is loaded) and for
\* the text followed by the kernel, which is what a loaded VM holds.
C36_OnlyCompleteForms ==
    /\ frames = << >> =>
          \A compiled \in {compile(Programs[program])} :
              compiled.aborted =>
                  compiled.opcodes = compile(completeForms(Programs[program])).opcodes
    /\ frames # << >> =>
          (compile(Programs[program] \o KERNEL).aborted =>
              frames[1] = compile(completeForms(Programs[program] \o KERNEL)).opcodes)

(***************************************************************************)
(* C37: one env for each frame                                             *)
(***************************************************************************)

\* C37: once a program is loaded, the env stack is as deep as the frame
\* stack: the global env for the root frame and, above it, the env of each
\* call that has not returned, however deep the calls nest.
C37_EnvPerFrame ==
    frames # << >> =>
        /\ Len(frames) = frameIdx + 1
        /\ Len(envs) = Len(frames)

(***************************************************************************)
(* The methods of the VM called in any order                               *)
(***************************************************************************)

\* the VM after construction; the editor holds a program with a loop or one
\* with a call
LifecycleInit ==
    /\ program \in {i \in 1..Len(Programs) : Programs[i] \in {WhileThree, CallOneValue}}
    /\ cachedHash = NullHash
    /\ \E vm \in {NewVM} :
          /\ status = vm.status
          /\ updateIntervalID = vm.updateIntervalID
          /\ drawIntervalID = vm.drawIntervalID
          /\ intervals = vm.intervals
          /\ frames = vm.frames
          /\ frameIdx = vm.frameIdx
          /\ fp = vm.fp
          /\ needsUpdate = vm.needsUpdate
          /\ needsDraw = vm.needsDraw
          /\ constants = vm.constants
          /\ envs = vm.envs
          /\ stack = vm.stack
          /\ console = vm.console

\* VM.load of the editor's text
Load == \E vm \in {load(VMState, Programs[program])} : InBounds(vm) /\ Becomes(vm)

\* VM.run
Run == \E vm \in {run(VMState)} : InBounds(vm) /\ Becomes(vm)

\* VM.pause
Pause == \E vm \in {pause(VMState)} : Becomes(vm)

\* VM.setStatus called directly, with one of the values of VMStatus
SetStatus ==
    \E to \in {VMStatus.STOPPED, VMStatus.PAUSED, VMStatus.RUNNING} :
        Becomes(setStatus(VMState, to))

\* the methods that schedule and cancel the ticks themselves, and the ticks
ManagedNext == Load \/ Run \/ Pause \/ Stop \/ StepCmd \/ UpdateTick \/ DrawTick

\* the runs without a direct call of setStatus
ManagedSpec == LifecycleInit /\ [][ManagedNext]_vars

\* every public method of the VM that changes it, and the ticks
LifecycleNext == ManagedNext \/ SetStatus

LifecycleSpec == LifecycleInit /\ [][LifecycleNext]_vars

(***************************************************************************)
(* C38: the status and the ticks                                           *)
(***************************************************************************)

\* the timers of the given kind that are alive
ticksOf(kind) == {iv \in intervals : iv.kind = kind}

\* C38: whatever methods have been called and whatever ticks have fired, the
\* status is RUNNING exactly when an update tick and a draw tick are
\* scheduled; the two are scheduled together and cancelled together; there is
\* never more than one of each, and they are the ones the VM holds the ids of.
C38_TicksFollowStatus ==
    /\ status = VMStatus.RUNNING <=> (ticksOf("update") # {} /\ ticksOf("draw") # {})
    /\ ticksOf("update") # {} <=> ticksOf("draw") # {}
    /\ Cardinality(ticksOf("update")) <= 1
    /\ Cardinality(ticksOf("draw")) <= 1
    /\ IF status = VMStatus.RUNNING
       THEN ticksScheduled(intervals, updateIntervalID, drawIntervalID)
       ELSE intervals = {} /\ updateIntervalID = -1 /\ drawIntervalID = -1

\* C38 witness: a VM is running in the middle of the loop, after ticks have
\* fired, with one update tick and one draw tick scheduled
C38_RunningInLoop ==
    /\ Programs[program] = WhileThree
    /\ status = VMStatus.RUNNING
    /\ fp.t = "RawInt" /\ fp.n > 0
    /\ console # << >>
    /\ Cardinality(intervals) = 2
    /\ ticksScheduled(intervals, updateIntervalID, drawIntervalID)

(***************************************************************************)
(* C39: what load resets                                                   *)
(***************************************************************************)

\* C39: load leaves the value stack empty and both tick flags set, whatever
\* the stack and the flags were when it was called.
C39_LoadResetsStackAndFlags ==
    [][Load => /\ stack' = << >>
               /\ needsUpdate'
               /\ needsDraw']_vars

(***************************************************************************)
(* C40: the value stack around a loop                                      *)
(*                                                                         *)
(* The kernel loop is never compiled (its first call names                 *)
(* __needs_update, which the Lexer does not read as an identifier), so the *)
(* loop followed here is one of the program: its body is one call form.    *)
(***************************************************************************)

\* the VM after construction; the editor holds a program with a loop
LoopInit ==
    /\ program \in {i \in 1..Len(Programs) : Programs[i] \in {WhileThree, LoopCallingFun}}
    /\ cachedHash = NullHash
    /\ \E vm \in {NewVM} :
          /\ status = vm.status
          /\ updateIntervalID = vm.updateIntervalID
          /\ drawIntervalID = vm.drawIntervalID
          /\ intervals = vm.intervals
          /\ frames = vm.frames
          /\ frameIdx = vm.frameIdx
          /\ fp = vm.fp
          /\ needsUpdate = vm.needsUpdate
          /\ needsDraw = vm.needsDraw
          /\ constants = vm.constants
          /\ envs = vm.envs
          /\ stack = vm.stack
          /\ console = vm.console

\* the program is played, paused and stepped; the stop button is left alone,
\* so that the program is loaded again only after it has ended
LoopNext == PlayPause \/ StepCmd \/ UpdateTick \/ DrawTick

LoopSpec == LoopInit /\ [][LoopNext]_vars

\* the pcs the backward JUMPs of code lead to: the conditions of its loops
loopHeads(code) ==
    {q + 2 + code[q + 2] : q \in {b \in Boundaries(code) : /\ code[b + 1] = Opcode.JUMP
                                                          /\ b + 2 <= Len(code)
                                                          /\ code[b + 2] < 0}}

\* the main code is about to evaluate the condition of a loop
atLoopHead ==
    /\ frames # << >>
    /\ frameIdx = 0
    /\ fp.t = "RawInt"
    /\ fp.n \in loopHeads(frames[1])

\* C40: every iteration of a loop of calls and statements starts with the
\* value stack as deep as the first one found it; the programs here reach
\* their loop with an empty stack, so the stack is empty at every evaluation
\* of the condition.
C40_LoopKeepsDepth == atLoopHead => stack = << >>

====
